---- MODULE Spec2Model ----
(***************************************************************************)
(* WorldVoice speech driver: the instruction pipeline of SynthDriver.speak *)
(* (addon/synthDrivers/WorldVoice/__init__.py) as a state machine.         *)
(*                                                                         *)
(* Strings are sequences of one-character strings.  A payload handed to a  *)
(* voice is kept as the sequence of the pieces the code joins, so that the *)
(* text fragments and the control markers in it stay distinguishable.      *)
(***************************************************************************)
EXTENDS Integers, Sequences, FiniteSets, TLC

VARIABLES
    open,            \* TRUE: the caller's stream is still being produced
    stream,          \* speechSequence as iterated by the loop at line 282
    n,               \* number of instructions of stream already iterated
    pc,              \* "loop" | "done" (speak returned) | "raised" (exception)
    engine,          \* engine tag of every voice handle
    prosody,         \* pitch, rate and volume of every voice handle
    voiceInstance,   \* line 248
    currentLanguage, \* line 249
    chunks,          \* line 251
    hasText,         \* line 252
    charMode,        \* line 253
    textList,        \* line 255
    tags,            \* line 260 (a dict in insertion order)
    tagsChanged,     \* line 262
    openedTags,      \* line 263
    item,            \* the loop-local `item`, unbound until a branch assigns it
    calls,           \* every call made on a voice handle, in order
    lookups,         \* every language code given to getVoiceInstanceForLanguage
    fed,             \* ids of the Text instructions put in a buffer or dispatched
    stabIn,          \* the sequence given to the stabilizer pass (lines 232-246)
    stabOut,         \* the result of the latest stabilizer pass
    stabPrev,        \* what that pass was applied to
    passes,          \* number of stabilizer passes applied
    numCfg,          \* _nummod, _numlan, speechSymbols, numberDotReplacement
    numIn,           \* the sequence given to coercionNumberLangChange
    result,          \* its local `result` (line 746)
    numPc,           \* "split" (before line 746) | "rewrite" (line 753) | "done"
    pressed,           \* Hook.pressed (hook.py line 13)
    pressed_max_count, \* Hook.pressed_max_count (hook.py line 14)
    reset_flag,        \* Hook.reset_flag (hook.py line 15)
    taskManager,       \* voiceManager.taskManager is an object (not None)
    block,             \* voiceManager.taskManager.block
    hookPc,            \* the line hook_callback stands at; "idle" between calls
    event,             \* kwargs of the hook_callback call under way
    returned,          \* how the latest hook_callback call ended
    down,              \* the keys held down (latest event a press)
    tmCalls            \* reset/cancel calls since reset_flag was last set

muxVars == <<open, stream, n, pc, engine, prosody, voiceInstance, currentLanguage, chunks,
             hasText, charMode, textList, tags, tagsChanged, openedTags, item,
             calls, lookups, fed>>

stabVars == <<stabIn, stabOut, stabPrev, passes>>

numVars == <<numCfg, numIn, result, numPc>>

hookVars == <<pressed, pressed_max_count, reset_flag, taskManager, block, hookPc,
              event, returned, down, tmCalls>>

vars == <<muxVars, stabVars, numVars, hookVars>>

----------------------------------------------------------------------------
(* Bounds of the model. *)

MaxLen == 4

MaxStabLen == 6

MaxPasses == 2

MaxNumLen == 3

----------------------------------------------------------------------------
(* Voice handles, languages, the voice manager. *)

Engines == {"VE", "SAPI5", "aisound"}

defaultInstance == "D"

Voices == {"D", "V"}

NoVoice == "none"

NoneLang == "None"

defaultLanguage == "en"

Languages == {"en", "fr", "de", "zz"}

(* VoiceManager.getVoiceInstanceForLanguage: "fr" and "de" share one handle, *)
(* "zz" has no voice.                                                        *)
getVoiceInstanceForLanguage(lang) ==
    CASE lang = "en" -> "D"
      [] lang = "fr" -> "V"
      [] lang = "de" -> "V"
      [] OTHER -> NoVoice

(* voiceInstance._pitch of a handle (a setting of the voice, 0..100). *)
VoicePitch(v) == IF v = "D" THEN 50 ELSE 60

(* voiceInstance._rate and voiceInstance._volume of a handle. *)
VoiceRate(v) == IF v = "D" THEN 40 ELSE 70

VoiceVolume(v) == IF v = "D" THEN 100 ELSE 80

(* The settings of the voice handles when speak is called. *)
VoiceSettings ==
    [v \in Voices |->
        [pitch |-> VoicePitch(v), rate |-> VoiceRate(v), volume |-> VoiceVolume(v)]]

Unbound == [kind |-> "unbound"]

----------------------------------------------------------------------------
(* Strings. *)

Whitespace == {" "}

RECURSIVE LStrip(_)
LStrip(s) ==
    IF s # <<>> /\ Head(s) \in Whitespace THEN LStrip(Tail(s)) ELSE s

RECURSIVE RStrip(_)
RStrip(s) ==
    IF s # <<>> /\ s[Len(s)] \in Whitespace
    THEN RStrip(SubSeq(s, 1, Len(s) - 1)) ELSE s

(* str.strip() *)
Strip(s) == RStrip(LStrip(s))

LowerChar(c) ==
    CASE c = "A" -> "a"
      [] c = "B" -> "b"
      [] OTHER -> c

(* str.lower() *)
Lower(s) == [i \in 1..Len(s) |-> LowerChar(s[i])]

RECURSIVE ReplaceChar(_, _, _)
(* str.replace(c, r) for a one-character c *)
ReplaceChar(s, c, r) ==
    IF s = <<>> THEN <<>>
    ELSE (IF Head(s) = c THEN r ELSE <<Head(s)>>) \o ReplaceChar(Tail(s), c, r)

RECURSIVE JoinChars(_)
(* ' '.join([x for x in item]) *)
JoinChars(s) ==
    IF Len(s) <= 1 THEN s ELSE <<Head(s), " ">> \o JoinChars(Tail(s))

Esc == "\\x1b"

----------------------------------------------------------------------------
(* Instructions of the stream. *)

Text(s) == [kind |-> "Text", text |-> s]

IndexCommand(i) == [kind |-> "Index", index |-> i]

BreakCommand(t) == [kind |-> "Break", time |-> t]

SplitCommand == [kind |-> "Split"]

LangChangeCommand(l) == [kind |-> "LangChange", lang |-> l]

(* The driver's own language-change command (the number markers). *)
WVLangChangeCommand(l) == [kind |-> "WVLangChange", lang |-> l]

(* The host's prosody commands: the multiplier and the value the host *)
(* derives for the synthesizer's 0..100 setting.                      *)
PitchCommand(m, v) == [kind |-> "Pitch", multiplier |-> m, newValue |-> v]

RateCommand(m, v) == [kind |-> "Rate", multiplier |-> m, newValue |-> v]

VolumeCommand(m, v) == [kind |-> "Volume", multiplier |-> m, newValue |-> v]

CharacterModeCommand(state) == [kind |-> "CharacterMode", state |-> state]

(* An object that is none of the commands speak knows (falls to the last *)
(* else of every engine branch).                                         *)
UnknownCommand == [kind |-> "Unknown"]

(* Text fragments of the modelled streams: a one-letter capital and a *)
(* whitespace-only fragment.                                           *)
Texts == {<<"A">>, <<" ">>}

BreakTimes == {500}

Indexes == {1}

----------------------------------------------------------------------------
(* Payloads. *)

TextPiece(s, id) == [k |-> "text", s |-> s, id |-> id]

(* f"\x1b\\{directive}={value}\\" *)
EscPiece(d, v) == [k |-> "esc", d |-> d, v |-> v]

Sep == [k |-> "sep"]

RECURSIVE JoinChunks(_)
(* speech.CHUNK_SEPARATOR.join(chunks).replace("  \x1b", "\x1b"): the pieces *)
(* with a separator between neighbours, except in front of an escape piece   *)
(* (text pieces hold no escape character and no outer blanks).               *)
JoinChunks(cs) ==
    IF Len(cs) <= 1 THEN cs
    ELSE <<Head(cs)>> \o (IF cs[2].k = "esc" THEN <<>> ELSE <<Sep>>)
         \o JoinChunks(Tail(cs))

SpeakCall(v, payload) == [voice |-> v, op |-> "speak", payload |-> payload]

BreaksCall(v, t) == [voice |-> v, op |-> "breaks", payload |-> t]

IndexCall(v, i) == [voice |-> v, op |-> "index", payload |-> i]

----------------------------------------------------------------------------
(* The tag set of the markup engine. *)

TagNames(tg) == {tg[i].tag : i \in 1..Len(tg)}

(* tags[name] = attrs: an existing key keeps its place, a new one goes last. *)
SetTag(tg, name, attrs) ==
    IF name \in TagNames(tg)
    THEN [i \in 1..Len(tg) |->
            IF tg[i].tag = name THEN [tag |-> name, attrs |-> attrs] ELSE tg[i]]
    ELSE Append(tg, [tag |-> name, attrs |-> attrs])

PitchAttrs(v) == <<[attr |-> "absmiddle", val |-> VoicePitch(v)]>>

(* Lines 351-353, 433-435, 474-476: the pitch entry of a markup voice. *)
SeedPitch(tg, v) ==
    IF engine[v] = "SAPI5" THEN SetTag(tg, "pitch", PitchAttrs(v)) ELSE tg

(* Mutant of ClosingTags: line 267 without reversed(). *)
ClosingTags_OpenOrder(ot) ==
    [i \in 1..Len(ot) |-> [k |-> "close", tag |-> ot[i]]]

ClosingTags(ot) ==
    [i \in 1..Len(ot) |-> [k |-> "close", tag |-> ot[Len(ot) + 1 - i]]]

RECURSIVE OpeningTags(_)
OpeningTags(tg) ==
    IF tg = <<>> THEN <<>>
    ELSE <<[k |-> "open", tag |-> Head(tg).tag]>>
         \o [i \in 1..Len(Head(tg).attrs) |->
               [k |-> "attr", attr |-> Head(tg).attrs[i].attr,
                val |-> Head(tg).attrs[i].val]]
         \o <<[k |-> "gt"]>>
         \o OpeningTags(Tail(tg))

(* outputTags(), called with the buffers tl, ot, tg, the dirty flag tc and *)
(* the active voice v; the result holds the four values it leaves behind.  *)
outputTags(tl, ot, tg, tc, v) ==
    IF ~tc
    THEN [textList |-> tl, openedTags |-> ot, tags |-> tg, tagsChanged |-> tc]
    ELSE [textList |-> tl \o ClosingTags(ot) \o OpeningTags(tg),
          openedTags |-> [i \in 1..Len(tg) |-> tg[i].tag],
          tags |-> SeedPitch(tg, v),
          tagsChanged |-> FALSE]

----------------------------------------------------------------------------
(* The loop of speak over the instruction stream (lines 282-480). *)

(* `for command in speechSequence`: the next instruction, either the next *)
(* one of a given stream or, while the stream is open, any instruction.   *)
Feed(cmd) ==
    /\ pc = "loop"
    /\ IF n < Len(stream)
       THEN cmd = stream[n + 1] /\ stream' = stream
       ELSE open /\ n < MaxLen /\ stream' = Append(stream, cmd)
    /\ n' = n + 1
    /\ UNCHANGED <<open, engine, stabVars, numVars, hookVars>>

(* The text a chunk-protocol voice buffers (lines 285-293); <<>>: skipped. *)
VEText(s, cm) ==
    LET c == Strip(s)
    IN  IF c = <<>> THEN <<>>
        ELSE ReplaceChar(IF cm \/ Len(c) = 1 THEN Lower(c) ELSE c, Esc, <<>>)

(* item.replace("<", "&lt;"), line 362 *)
SapiText(s) == ReplaceChar(s, "<", <<"&", "l", "t", ";">>)

(* Lines 444-447. *)
AisoundText(s, cm) == IF cm THEN JoinChars(s) ELSE s

(* A str instruction: lines 284-294, 360-362, 443-448. *)
SpeakText(s) ==
    LET cmd == Text(s)
        id == n + 1
        e == engine[voiceInstance]
        out == outputTags(textList, openedTags, tags, tagsChanged, voiceInstance)
    IN  /\ Feed(cmd)
        /\ CASE e = "VE" ->
                  IF VEText(s, charMode) = <<>>
                  THEN UNCHANGED <<chunks, hasText, fed, textList, tags,
                                   tagsChanged, openedTags, item, calls>>
                  ELSE /\ chunks' = Append(chunks, TextPiece(VEText(s, charMode), id))
                       /\ hasText' = TRUE
                       /\ fed' = Append(fed, id)
                       /\ UNCHANGED <<textList, tags, tagsChanged, openedTags,
                                      item, calls>>
             [] e = "SAPI5" ->
                  /\ item' = cmd
                  /\ textList' = Append(out.textList, TextPiece(SapiText(s), id))
                  /\ openedTags' = out.openedTags
                  /\ tags' = out.tags
                  /\ tagsChanged' = out.tagsChanged
                  /\ fed' = Append(fed, id)
                  /\ UNCHANGED <<chunks, hasText, calls>>
             [] e = "aisound" ->
                  /\ item' = cmd
                  /\ calls' = Append(calls, SpeakCall(voiceInstance,
                                  <<TextPiece(AisoundText(s, charMode), id)>>))
                  /\ fed' = Append(fed, id)
                  /\ UNCHANGED <<chunks, hasText, textList, tags, tagsChanged,
                                 openedTags>>
        /\ UNCHANGED <<pc, prosody, lookups, voiceInstance, currentLanguage, charMode>>

(* IndexCommand: lines 295-297, 363-364, 449-450. *)
SpeakIndex(i) ==
    LET cmd == IndexCommand(i)
        e == engine[voiceInstance]
    IN  /\ Feed(cmd)
        /\ CASE e = "VE" ->
                  /\ chunks' = Append(chunks, EscPiece("mrk", i))
                  /\ UNCHANGED <<textList, item, calls>>
             [] e = "SAPI5" ->
                  /\ item' = cmd
                  /\ textList' = Append(textList, [k |-> "bookmark", mark |-> i])
                  /\ UNCHANGED <<chunks, calls>>
             [] e = "aisound" ->
                  /\ item' = cmd
                  /\ calls' = Append(calls, IndexCall(voiceInstance, i))
                  /\ UNCHANGED <<chunks, textList>>
        /\ UNCHANGED <<pc, prosody, lookups, voiceInstance, currentLanguage, hasText,
                       charMode, tags, tagsChanged, openedTags, fed>>

(* BreakCommand: lines 298-302 and 374-375; the plain-call branch has no *)
(* arm for it, so it ends in the log call of line 478.                    *)
SpeakBreak(t) ==
    LET cmd == BreakCommand(t)
        e == engine[voiceInstance]
    IN  /\ Feed(cmd)
        /\ CASE e = "VE" ->
                  /\ calls' = calls \o <<SpeakCall(voiceInstance, JoinChunks(chunks)),
                                         BreaksCall(voiceInstance, t)>>
                  /\ chunks' = <<>>
                  /\ hasText' = FALSE
                  /\ UNCHANGED <<textList, item>>
             [] e = "SAPI5" ->
                  /\ item' = cmd
                  /\ textList' = Append(textList, [k |-> "silence", msec |-> t])
                  /\ UNCHANGED <<chunks, hasText, calls>>
             [] e = "aisound" ->
                  /\ item' = cmd
                  /\ UNCHANGED <<chunks, hasText, textList, calls>>
        /\ UNCHANGED <<pc, prosody, lookups, voiceInstance, currentLanguage, charMode, tags,
                       tagsChanged, openedTags, fed>>

(* SplitCommand: lines 324-327; the other two branches have no arm for it. *)
SpeakSplit ==
    LET cmd == SplitCommand
        e == engine[voiceInstance]
    IN  /\ Feed(cmd)
        /\ IF e = "VE"
           THEN /\ calls' = Append(calls, SpeakCall(voiceInstance, JoinChunks(chunks)))
                /\ chunks' = <<>>
                /\ hasText' = FALSE
                /\ UNCHANGED item
           ELSE /\ item' = cmd
                /\ UNCHANGED <<chunks, hasText, calls>>
        /\ UNCHANGED <<pc, prosody, lookups, voiceInstance, currentLanguage, charMode,
                       textList, tags, tagsChanged, openedTags, fed>>

(* An instruction no arm of the active branch knows: lines 354-357 (which *)
(* read `item`, a name the chunk-protocol branch never binds: NameError   *)
(* while it is unbound), 437-440, 477-480.                                *)
SpeakUnknown ==
    LET cmd == UnknownCommand
        e == engine[voiceInstance]
    IN  /\ Feed(cmd)
        /\ IF e = "VE"
           THEN /\ pc' = IF item = Unbound THEN "raised" ELSE pc
                /\ UNCHANGED item
           ELSE /\ item' = cmd
                /\ UNCHANGED pc
        /\ UNCHANGED <<prosody, lookups, voiceInstance, currentLanguage, chunks,
                       hasText, charMode, textList, tags, tagsChanged, openedTags,
                       calls, fed>>

(* max(0, min(command.newValue, 100)), lines 305, 311, 317 *)
Bounded(v) == IF v < 0 THEN 0 ELSE IF v > 100 THEN 100 ELSE v

(* int(round(2.0 ** (k / 50.0) * 100)) for k = -50, ..., 50 (lines *)
(* 306-308 for values below 50, lines 312-314).                    *)
Pow2Factor50 ==
    << 50, 51, 51, 52, 53, 54, 54, 55, 56, 57, 57, 58,
       59, 60, 61, 62, 62, 63, 64, 65, 66, 67, 68, 69,
       70, 71, 72, 73, 74, 75, 76, 77, 78, 79, 80, 81,
       82, 84, 85, 86, 87, 88, 90, 91, 92, 93, 95, 96,
       97, 99, 100, 101, 103, 104, 106, 107, 109, 110, 112, 113,
       115, 116, 118, 120, 121, 123, 125, 127, 128, 130, 132, 134,
       136, 138, 139, 141, 143, 145, 147, 149, 152, 154, 156, 158,
       160, 162, 165, 167, 169, 172, 174, 177, 179, 182, 184, 187,
       189, 192, 195, 197, 200 >>

(* int(round(2.0 ** (k / 25.0) * 100)) for k = 0, ..., 50 (lines 306-308 *)
(* for values from 50 on).                                              *)
Pow2Factor25 ==
    << 100, 103, 106, 109, 112, 115, 118, 121, 125, 128, 132, 136,
       139, 143, 147, 152, 156, 160, 165, 169, 174, 179, 184, 189,
       195, 200, 206, 211, 217, 223, 230, 236, 243, 250, 257, 264,
       271, 279, 287, 295, 303, 312, 320, 329, 339, 348, 358, 368,
       378, 389, 400 >>

(* int(round(2.0 ** (num / den) * 100)), den being 50.0 or 25.0. *)
Pow2x100(num, den) ==
    IF den = 50 THEN Pow2Factor50[num + 51] ELSE Pow2Factor25[num + 1]

(* Mutant of VERate: the factor is 50.0 for every value. *)
VERate_Factor50(v) == Pow2x100(Bounded(v) - 50, 50)

(* Lines 305-308. *)
VERate(v) == Pow2x100(Bounded(v) - 50, IF Bounded(v) >= 50 THEN 25 ELSE 50)

(* Lines 311-314. *)
VEPitch(v) == Pow2x100(Bounded(v) - 50, 50)

(* del tags[name], a missing key ignored (lines 369-372, 381-384, 390-393) *)
DelTag(tg, name) == SelectSeq(tg, LAMBDA t : t.tag # name)

(* Mutant of AfterProsodyCommand: the command's multiplier is written to *)
(* the setting of the active voice handle.                               *)
AfterProsodyCommand_Applied(p, v, cmd) ==
    CASE cmd.kind = "Pitch" -> [p EXCEPT ![v].pitch = @ * cmd.multiplier]
      [] cmd.kind = "Rate" -> [p EXCEPT ![v].rate = @ * cmd.multiplier]
      [] cmd.kind = "Volume" -> [p EXCEPT ![v].volume = @ * cmd.multiplier]

(* The voice settings after a Pitch, Rate or Volume arm (lines 304-318,  *)
(* 376-396): the arms read voiceInstance.pitch, _volume and _rate and    *)
(* assign to none of them.                                               *)
AfterProsodyCommand(p, v, cmd) == p

(* PitchCommand: lines 310-315, 376-378; no arm in the plain-call branch. *)
SpeakPitch(m, v) ==
    LET cmd == PitchCommand(m, v)
        e == engine[voiceInstance]
    IN  /\ Feed(cmd)
        /\ CASE e = "VE" ->
                  /\ chunks' = Append(chunks, EscPiece("pitch", VEPitch(v)))
                  /\ UNCHANGED <<tags, tagsChanged, item>>
             [] e = "SAPI5" ->
                  /\ item' = cmd
                  /\ tags' = SetTag(tags, "pitch",
                                <<[attr |-> "absmiddle",
                                   val |-> ((prosody[voiceInstance].pitch * m) \div 2) - 25]>>)
                  /\ tagsChanged' = TRUE
                  /\ UNCHANGED chunks
             [] e = "aisound" ->
                  /\ item' = cmd
                  /\ UNCHANGED <<chunks, tags, tagsChanged>>
        /\ prosody' = AfterProsodyCommand(prosody, voiceInstance, cmd)
        /\ UNCHANGED <<pc, lookups, voiceInstance, currentLanguage, hasText,
                       charMode, textList, openedTags, calls, fed>>

(* RateCommand: lines 304-309, 388-396; no arm in the plain-call branch. *)
SpeakRate(m, v) ==
    LET cmd == RateCommand(m, v)
        e == engine[voiceInstance]
    IN  /\ Feed(cmd)
        /\ CASE e = "VE" ->
                  /\ chunks' = Append(chunks, EscPiece("rate", VERate(v)))
                  /\ UNCHANGED <<tags, tagsChanged, item>>
             [] e = "SAPI5" ->
                  /\ item' = cmd
                  /\ tags' = IF m = 1 THEN DelTag(tags, "rate")
                             ELSE SetTag(tags, "rate",
                                    <<[attr |-> "absspeed",
                                       val |-> prosody[voiceInstance].rate * m]>>)
                  /\ tagsChanged' = TRUE
                  /\ UNCHANGED chunks
             [] e = "aisound" ->
                  /\ item' = cmd
                  /\ UNCHANGED <<chunks, tags, tagsChanged>>
        /\ prosody' = AfterProsodyCommand(prosody, voiceInstance, cmd)
        /\ UNCHANGED <<pc, lookups, voiceInstance, currentLanguage, hasText,
                       charMode, textList, openedTags, calls, fed>>

(* VolumeCommand: lines 316-318, 379-387; no arm in the plain-call branch. *)
SpeakVolume(m, v) ==
    LET cmd == VolumeCommand(m, v)
        e == engine[voiceInstance]
    IN  /\ Feed(cmd)
        /\ CASE e = "VE" ->
                  /\ chunks' = Append(chunks, EscPiece("vol", Bounded(v)))
                  /\ UNCHANGED <<tags, tagsChanged, item>>
             [] e = "SAPI5" ->
                  /\ item' = cmd
                  /\ tags' = IF m = 1 THEN DelTag(tags, "volume")
                             ELSE SetTag(tags, "volume",
                                    <<[attr |-> "level",
                                       val |-> prosody[voiceInstance].volume * m]>>)
                  /\ tagsChanged' = TRUE
                  /\ UNCHANGED chunks
             [] e = "aisound" ->
                  /\ item' = cmd
                  /\ UNCHANGED <<chunks, tags, tagsChanged>>
        /\ prosody' = AfterProsodyCommand(prosody, voiceInstance, cmd)
        /\ UNCHANGED <<pc, lookups, voiceInstance, currentLanguage, hasText,
                       charMode, textList, openedTags, calls, fed>>

(* CharacterModeCommand: lines 319-323, 365-373, 451-452.  The escape    *)
(* piece \tn=spell\ is written with value 1, \tn=normal\ with value 0.  *)
SpeakCharacterMode(state) ==
    LET cmd == CharacterModeCommand(state)
        e == engine[voiceInstance]
    IN  /\ Feed(cmd)
        /\ CASE e = "VE" ->
                  /\ charMode' = state
                  /\ chunks' = Append(chunks, EscPiece("tn", IF state THEN 1 ELSE 0))
                  /\ UNCHANGED <<tags, tagsChanged, item>>
             [] e = "SAPI5" ->
                  /\ item' = cmd
                  /\ tags' = IF state THEN SetTag(tags, "spell", <<>>)
                             ELSE DelTag(tags, "spell")
                  /\ tagsChanged' = TRUE
                  /\ UNCHANGED <<chunks, charMode>>
             [] e = "aisound" ->
                  /\ item' = cmd
                  /\ charMode' = state
                  /\ UNCHANGED <<chunks, tags, tagsChanged>>
        /\ UNCHANGED <<pc, prosody, lookups, voiceInstance, currentLanguage, hasText,
                       textList, openedTags, calls, fed>>

(* Mutant of ResolveVoice: lines 340-342 (417-419, 465-467) fall back to *)
(* the other voice instead of the default one.                            *)
ResolveVoice_FallbackOther(lang) ==
    LET newInstance == getVoiceInstanceForLanguage(lang)
    IN  IF newInstance = NoVoice THEN "V" ELSE newInstance

(* Lines 338-342, 415-419, 463-467: the voice of a language, the default *)
(* voice when the voice manager has none.                                *)
ResolveVoice(lang) ==
    LET newInstance == getVoiceInstanceForLanguage(lang)
    IN  IF newInstance = NoVoice THEN defaultInstance ELSE newInstance

(* Mutant of IsSameVoice: the test of lines 343, 420, 468 left out. *)
IsSameVoice_Omitted(newInstance, v) == FALSE

(* newInstance == voiceInstance, lines 343, 420, 468: the same handle. *)
IsSameVoice(newInstance, v) == newInstance = v

(* Mutant of IsSameLanguage: the test of lines 329, 406, 454 left out. *)
IsSameLanguage_Omitted(lang, current) == FALSE

(* command.lang == currentLanguage, lines 329, 406, 454 *)
IsSameLanguage(lang, current) == lang = current

(* LangChangeCommand or WVLangChangeCommand: lines 328-353, 405-435, 453-476. *)
LangChangeStep(cmd) ==
    LET lang == cmd.lang
        e == engine[voiceInstance]
        newInstance == ResolveVoice(lang)
        cleared == outputTags(textList, openedTags, <<>>, TRUE, voiceInstance)
    IN  /\ Feed(cmd)
        /\ item' = IF e = "VE" THEN item ELSE cmd
        /\ IF IsSameLanguage(lang, currentLanguage)
           THEN UNCHANGED <<voiceInstance, currentLanguage, chunks, hasText,
                            charMode, textList, tags, tagsChanged, openedTags,
                            calls, lookups>>
           ELSE IF lang = NoneLang
           THEN /\ voiceInstance' = defaultInstance
                /\ currentLanguage' = defaultLanguage
                /\ UNCHANGED <<chunks, hasText, charMode, textList, tags,
                               tagsChanged, openedTags, calls, lookups>>
           ELSE /\ currentLanguage' = lang
                /\ lookups' = Append(lookups, lang)
                /\ IF IsSameVoice(newInstance, voiceInstance)
                   THEN UNCHANGED <<voiceInstance, chunks, hasText, charMode,
                                    textList, tags, tagsChanged, openedTags, calls>>
                   ELSE /\ voiceInstance' = newInstance
                        /\ CASE e = "VE" ->
                                  /\ calls' = IF hasText
                                              THEN Append(calls, SpeakCall(voiceInstance,
                                                              JoinChunks(chunks)))
                                              ELSE calls
                                  /\ chunks' = <<>>
                                  /\ hasText' = FALSE
                                  /\ tags' = SeedPitch(tags, newInstance)
                                  /\ UNCHANGED <<charMode, textList, tagsChanged,
                                                 openedTags>>
                             [] e = "SAPI5" ->
                                  /\ calls' = Append(calls, SpeakCall(voiceInstance,
                                                                      cleared.textList))
                                  /\ textList' = <<>>
                                  /\ openedTags' = cleared.openedTags
                                  /\ tagsChanged' = cleared.tagsChanged
                                  /\ tags' = SeedPitch(cleared.tags, newInstance)
                                  /\ UNCHANGED <<chunks, hasText, charMode>>
                             [] e = "aisound" ->
                                  /\ calls' = Append(calls, SpeakCall(voiceInstance,
                                                                      JoinChunks(chunks)))
                                  /\ charMode' = FALSE
                                  /\ tags' = SeedPitch(tags, newInstance)
                                  /\ UNCHANGED <<chunks, hasText, textList,
                                                 tagsChanged, openedTags>>
        /\ UNCHANGED <<pc, prosody, fed>>

(* A host LangChangeCommand. *)
SpeakLangChange(lang) == LangChangeStep(LangChangeCommand(lang))

(* A WVLangChangeCommand, handled by the same arms. *)
SpeakWVLangChange(lang) == LangChangeStep(WVLangChangeCommand(lang))

(* The end of the stream: lines 482-493. *)
SpeakEnd ==
    LET e == engine[voiceInstance]
        cleared == outputTags(textList, openedTags, <<>>, TRUE, voiceInstance)
    IN  /\ pc = "loop"
        /\ n = Len(stream)
        /\ pc' = "done"
        /\ open' = FALSE
        /\ CASE e = "VE" ->
                  /\ calls' = IF chunks # <<>>
                              THEN Append(calls, SpeakCall(voiceInstance, JoinChunks(chunks)))
                              ELSE calls
                  /\ UNCHANGED <<textList, tags, tagsChanged, openedTags>>
             [] e = "SAPI5" ->
                  /\ calls' = Append(calls, SpeakCall(voiceInstance, cleared.textList))
                  /\ textList' = <<>>
                  /\ openedTags' = cleared.openedTags
                  /\ tagsChanged' = cleared.tagsChanged
                  /\ tags' = cleared.tags
             [] e = "aisound" ->
                  /\ calls' = Append(calls, SpeakCall(voiceInstance, JoinChunks(chunks)))
                  /\ UNCHANGED <<textList, tags, tagsChanged, openedTags>>
        /\ UNCHANGED <<stream, n, engine, prosody, lookups, voiceInstance, currentLanguage,
                       chunks, hasText, charMode, item, fed, stabVars, numVars,
                       hookVars>>

----------------------------------------------------------------------------
(* speak on a stream the caller produces instruction by instruction. *)

(* Lines 248-263: the state of speak before the loop. *)
SpeakStart ==
    /\ n = 0
    /\ pc = "loop"
    /\ engine \in [Voices -> Engines]
    /\ prosody = VoiceSettings
    /\ voiceInstance = defaultInstance
    /\ currentLanguage = defaultLanguage
    /\ chunks = <<>>
    /\ hasText = FALSE
    /\ charMode = FALSE
    /\ textList = <<>>
    /\ tags = <<>>
    /\ tagsChanged = TRUE
    /\ openedTags = <<>>
    /\ item = Unbound
    /\ calls = <<>>
    /\ lookups = <<>>
    /\ fed = <<>>

(* The loop of speak not entered. *)
MuxIdle ==
    /\ open = FALSE
    /\ stream = <<>>
    /\ n = 0
    /\ pc = "idle"
    /\ engine = [v \in Voices |-> "VE"]
    /\ prosody = VoiceSettings
    /\ voiceInstance = defaultInstance
    /\ currentLanguage = defaultLanguage
    /\ chunks = <<>>
    /\ hasText = FALSE
    /\ charMode = FALSE
    /\ textList = <<>>
    /\ tags = <<>>
    /\ tagsChanged = TRUE
    /\ openedTags = <<>>
    /\ item = Unbound
    /\ calls = <<>>
    /\ lookups = <<>>
    /\ fed = <<>>

(* No stabilizer pass under way. *)
StabIdle ==
    /\ stabIn = <<>>
    /\ stabOut = <<>>
    /\ stabPrev = <<>>
    /\ passes = 0

(* No call of coercionNumberLangChange under way. *)
NumIdle ==
    /\ numCfg = <<>>
    /\ numIn = <<>>
    /\ result = <<>>
    /\ numPc = "idle"

(* The Hook object as __init__ leaves it (hook.py lines 12-16), no task *)
(* manager, no key down, no call of hook_callback made.                 *)
HookIdle ==
    /\ pressed = {}
    /\ pressed_max_count = 0
    /\ reset_flag = FALSE
    /\ taskManager = FALSE
    /\ block = FALSE
    /\ hookPc = "idle"
    /\ event = <<>>
    /\ returned = "none"
    /\ down = {}
    /\ tmCalls = <<>>

Init ==
    /\ open = TRUE
    /\ stream = <<>>
    /\ SpeakStart
    /\ StabIdle
    /\ HookIdle
    /\ NumIdle

Next ==
    \/ \E s \in Texts : SpeakText(s)
    \/ \E i \in Indexes : SpeakIndex(i)
    \/ \E t \in BreakTimes : SpeakBreak(t)
    \/ SpeakSplit
    \/ \E lang \in Languages \cup {NoneLang} : SpeakLangChange(lang)
    \/ SpeakUnknown
    \/ SpeakEnd

Spec == Init /\ [][Next]_vars

----------------------------------------------------------------------------
(* speak on streams with prosody and character-mode commands. *)

(* multiplier and newValue of the modelled prosody commands *)
ProsodyArgs == {<<1, 50>>, <<2, 100>>}

NextProsody ==
    \/ SpeakText(<<"A">>)
    \/ \E a \in ProsodyArgs : SpeakPitch(a[1], a[2])
    \/ \E a \in ProsodyArgs : SpeakRate(a[1], a[2])
    \/ \E a \in ProsodyArgs : SpeakVolume(a[1], a[2])
    \/ \E state \in BOOLEAN : SpeakCharacterMode(state)
    \/ \E lang \in {"en", "fr", NoneLang} : SpeakLangChange(lang)
    \/ SpeakEnd

SpecProsody == Init /\ [][NextProsody]_vars

----------------------------------------------------------------------------
(* speak on the end-to-end scenario                                        *)
(*   [Text a, LanguageChange(c), Text b, LanguageChange(None), Text d].    *)

ScenarioTexts == {<<"H", "e">>, <<"b", "o", "n">>, <<"!">>}

ScenarioStreams ==
    {<<Text(a), LangChangeCommand(c), Text(b), LangChangeCommand(NoneLang), Text(d)>> :
        a \in ScenarioTexts, b \in ScenarioTexts, d \in ScenarioTexts,
        c \in {"fr", "de"}}

InitScenario ==
    /\ open = FALSE
    /\ stream \in ScenarioStreams
    /\ SpeakStart
    /\ StabIdle
    /\ HookIdle
    /\ NumIdle

NextScenario ==
    \/ \E s \in ScenarioTexts : SpeakText(s)
    \/ \E lang \in Languages \cup {NoneLang} : SpeakLangChange(lang)
    \/ SpeakEnd

SpecScenario == InitScenario /\ [][NextScenario]_vars

----------------------------------------------------------------------------
(* What the voices received. *)

TextPieces(payload) == SelectSeq(payload, LAMBDA x : x.k = "text")

(* The ids of the Text instructions a payload carries, in order. *)
Ids(payload) == [i \in 1..Len(TextPieces(payload)) |-> TextPieces(payload)[i].id]

RECURSIVE Delivered(_)
(* The ids of the Text instructions handed to voices by the calls cs. *)
Delivered(cs) ==
    IF cs = <<>> THEN <<>>
    ELSE (IF Head(cs).op = "speak" THEN Ids(Head(cs).payload) ELSE <<>>)
         \o Delivered(Tail(cs))

Range(f) == {f[i] : i \in DOMAIN f}

Count(f, x) == Cardinality({i \in DOMAIN f : f[i] = x})

(* The calls a step added. *)
NewCalls == SubSeq(calls', Len(calls) + 1, Len(calls'))

(* The speak calls that carry text: who received which Text instructions. *)
TextFlushes(cs) ==
    LET sp == SelectSeq(cs, LAMBDA c : c.op = "speak" /\ Ids(c.payload) # <<>>)
    IN  [i \in 1..Len(sp) |-> [voice |-> sp[i].voice, ids |-> Ids(sp[i].payload)]]

(* The instruction the last step consumed. *)
Stepped == n' = n + 1

Last == stream'[n']

----------------------------------------------------------------------------
(* C1: when speak returns, the Text fragments the voices received are    *)
(* exactly the Text fragments speak took from the stream (a fragment     *)
(* that is blank for the chunk-protocol engine aside), each once, in     *)
(* stream order.                                                         *)
C1_TextDeliveredOnceInOrder == pc = "done" => Delivered(calls) = fed

(* C2: on the scenario stream speak makes exactly three text-carrying    *)
(* flushes: the default voice receives a, voice V receives b, the        *)
(* default voice receives d.                                             *)
C2_ThreeFlushes ==
    pc = "done" =>
        TextFlushes(calls) = << [voice |-> "D", ids |-> <<1>>],
                                [voice |-> "V", ids |-> <<3>>],
                                [voice |-> "D", ids |-> <<5>>] >>

(* C3: a LanguageChange(code), code not None, that resolves to a voice   *)
(* other than the active one delivers every text buffered so far to the  *)
(* old voice in that step, and a delivered text is never delivered       *)
(* again.                                                                *)
C3_SwitchFlushesOldVoice ==
    [][ /\ (/\ Stepped
            /\ Last.kind = "LangChange"
            /\ Last.lang # NoneLang
            /\ ResolveVoice(Last.lang) # voiceInstance)
           => /\ \A k \in 1..Len(NewCalls) : NewCalls[k].voice = voiceInstance
              /\ \A id \in Range(fed) \ Range(Delivered(calls)) :
                    id \in Range(Delivered(NewCalls))
        /\ \A id \in Range(Delivered(calls)) :
              Count(Delivered(calls'), id) = Count(Delivered(calls), id) ]_vars

(* C4: at the end of the stream every piece still in the chunk list or   *)
(* in the markup text list is handed to the active voice.                *)
C4_EndFlushesEveryBuffer ==
    [][ (pc = "loop" /\ pc' = "done")
          => \A piece \in Range(chunks) \cup Range(textList) :
                \E k \in 1..Len(NewCalls) :
                    /\ NewCalls[k].voice = voiceInstance
                    /\ NewCalls[k].op = "speak"
                    /\ piece \in Range(NewCalls[k].payload) ]_vars

(* C5: a Break delivers the text buffered before it to the active voice  *)
(* and then issues the pause to that voice, for every engine kind; the   *)
(* Break is not put in a buffer.                                         *)
C5_BreakFlushesThenPauses ==
    [][ (Stepped /\ Last.kind = "Break")
          => /\ NewCalls # <<>>
             /\ NewCalls[Len(NewCalls)] = BreaksCall(voiceInstance, Last.time)
             /\ Range(fed) \subseteq Range(Delivered(calls'))
             /\ Len(chunks') <= Len(chunks)
             /\ Len(textList') <= Len(textList) ]_vars

(* C6: an instruction of an unknown kind is skipped: speak does not      *)
(* raise, the multiplexer state is as before, the loop goes on.          *)
C6_UnknownIsSkipped ==
    [][ (Stepped /\ Last.kind = "Unknown")
          => /\ pc' = "loop"
             /\ UNCHANGED <<voiceInstance, currentLanguage, chunks, hasText,
                            charMode, textList, tags, tagsChanged, openedTags,
                            calls>> ]_vars

(* The voice a LanguageChange(lang) stands for: the default voice for None *)
(* (lines 332-335), else the resolved voice.                                *)
Designated(lang) == IF lang = NoneLang THEN defaultInstance ELSE ResolveVoice(lang)

(* The position of the last instruction before position k of st that is *)
(* not a Text; 0 when there is none.                                     *)
PrevNonText(st, k) ==
    LET js == {j \in 1..(k - 1) : st[j].kind # "Text"}
    IN  IF js = {} THEN 0 ELSE CHOOSE j \in js : \A i \in js : i <= j

(* C9: a LanguageChange that follows another one (only Text between     *)
(* them) and stands for the same voice handle makes no backend call and  *)
(* changes neither the active voice nor any buffer.                      *)
C9_SameHandleNoFlush ==
    [][ (/\ Stepped
         /\ Last.kind = "LangChange"
         /\ PrevNonText(stream', n') > 0
         /\ stream'[PrevNonText(stream', n')].kind = "LangChange"
         /\ Designated(stream'[PrevNonText(stream', n')].lang) = Designated(Last.lang))
          => /\ calls' = calls
             /\ UNCHANGED <<voiceInstance, chunks, hasText, charMode, textList,
                            tags, tagsChanged, openedTags>> ]_vars

(* C9 witness: LanguageChange("fr"), a Text, LanguageChange("de") were   *)
(* processed, both codes resolve to V, and the text is still buffered.   *)
C9_Witness ==
    /\ n >= 3
    /\ stream[n] = LangChangeCommand("de")
    /\ stream[n - 1].kind = "Text"
    /\ stream[n - 2] = LangChangeCommand("fr")
    /\ voiceInstance = "V"
    /\ chunks \o textList # <<>>
    /\ calls = <<>>

(* The language codes the voice manager has no voice for. *)
IsUnresolvable(lang) ==
    lang # NoneLang /\ getVoiceInstanceForLanguage(lang) = NoVoice

(* Every Text taken from the stream after an unresolvable LanguageChange *)
(* and before the next language change went to the default voice only.   *)
AfterUnresolvableToDefault ==
    \A p \in 1..Len(stream), q \in 1..Len(stream) :
        (/\ p < q
         /\ stream[p].kind = "LangChange"
         /\ IsUnresolvable(stream[p].lang)
         /\ stream[q].kind = "Text"
         /\ q \in Range(fed)
         /\ \A r \in (p + 1)..(q - 1) : stream[r].kind # "LangChange")
          => /\ \E k \in 1..Len(calls) :
                    /\ calls[k].op = "speak"
                    /\ calls[k].voice = defaultInstance
                    /\ q \in Range(Ids(calls[k].payload))
             /\ \A k \in 1..Len(calls) :
                    (calls[k].op = "speak" /\ q \in Range(Ids(calls[k].payload)))
                      => calls[k].voice = defaultInstance

----------------------------------------------------------------------------
(* The stabilizer pass of speak, lines 232-246, on instructions that carry *)
(* their position in the input as id.                                       *)

StabKinds == {"Text", "LangChange", "WVLangChange", "Index"}

(* isinstance(command, LangChangeCommand) or isinstance(command, WVLangChangeCommand) *)
IsLangChange(command) == command.kind \in {"LangChange", "WVLangChange"}

RECURSIVE StabilizerLoop_InsertFront(_, _, _)
(* Mutant of StabilizerLoop: line 244 written as unstables.insert(0, command). *)
StabilizerLoop_InsertFront(seq, stables, unstables) ==
    IF seq = <<>> THEN stables \o unstables
    ELSE LET command == Head(seq)
         IN  IF IsLangChange(command)
             THEN StabilizerLoop_InsertFront(Tail(seq),
                      stables \o (<<command>> \o unstables), <<>>)
             ELSE IF command.kind = "Text"
             THEN StabilizerLoop_InsertFront(Tail(seq),
                      stables \o Append(unstables, command), <<>>)
             ELSE StabilizerLoop_InsertFront(Tail(seq), stables,
                      <<command>> \o unstables)

RECURSIVE StabilizerLoop_AppendLang(_, _, _)
(* Mutant of StabilizerLoop: line 236 written as unstables.append(command). *)
StabilizerLoop_AppendLang(seq, stables, unstables) ==
    IF seq = <<>> THEN stables \o unstables
    ELSE LET command == Head(seq)
         IN  IF IsLangChange(command) \/ command.kind = "Text"
             THEN StabilizerLoop_AppendLang(Tail(seq),
                      stables \o Append(unstables, command), <<>>)
             ELSE StabilizerLoop_AppendLang(Tail(seq), stables,
                      Append(unstables, command))

RECURSIVE StabilizerLoop(_, _, _)
(* The loop of lines 234-245 on the rest seq of the sequence. *)
StabilizerLoop(seq, stables, unstables) ==
    IF seq = <<>> THEN stables \o unstables
    ELSE LET command == Head(seq)
         IN  IF IsLangChange(command)
             THEN StabilizerLoop(Tail(seq), stables \o (<<command>> \o unstables), <<>>)
             ELSE IF command.kind = "Text"
             THEN StabilizerLoop(Tail(seq), stables \o Append(unstables, command), <<>>)
             ELSE StabilizerLoop(Tail(seq), stables, Append(unstables, command))

(* Lines 232-246. *)
Stabilizer(speechSequence) == StabilizerLoop(speechSequence, <<>>, <<>>)

StabInputs ==
    UNION {{[i \in 1..len |-> [kind |-> ks[i], id |-> i]] : ks \in [1..len -> StabKinds]} :
             len \in 0..MaxStabLen}

InitStab ==
    /\ stabIn \in StabInputs
    /\ stabOut = stabIn
    /\ stabPrev = stabIn
    /\ passes = 0
    /\ MuxIdle
    /\ NumIdle
    /\ HookIdle

(* One run of the stabilizer pass on the current sequence. *)
StabilizerPass ==
    /\ passes < MaxPasses
    /\ stabPrev' = stabOut
    /\ stabOut' = Stabilizer(stabOut)
    /\ passes' = passes + 1
    /\ UNCHANGED <<stabIn, muxVars, numVars, hookVars>>

NextStab == StabilizerPass

SpecStab == InitStab /\ [][NextStab]_vars

IsMarker(command) == ~IsLangChange(command) /\ command.kind # "Text"

(* The position in seq of the instruction with the given id. *)
PosOf(seq, id) == CHOOSE p \in 1..Len(seq) : seq[p].id = id

(* The position of the last Text or LanguageChange before position j of *)
(* seq; 0 when there is none.                                            *)
PrevBoundary(seq, j) ==
    LET bs == {b \in 1..(j - 1) : ~IsMarker(seq[b])}
    IN  IF bs = {} THEN 0 ELSE CHOOSE b \in bs : \A c \in bs : c <= b

(* A LanguageChange that directly follows a marker and is followed, with *)
(* no Text before it, by another LanguageChange.                         *)
HasChainedLangChange(seq) ==
    \E i \in 1..Len(seq), j \in 1..Len(seq) :
        /\ i < j
        /\ IsLangChange(seq[i])
        /\ IsLangChange(seq[j])
        /\ PrevBoundary(seq, j) = i
        /\ i > 1
        /\ IsMarker(seq[i - 1])

(* C7 as stated: a second stabilizer pass changes nothing, for every     *)
(* instruction sequence.                                                 *)
C7_StabilizerIdempotent == passes >= 2 => stabOut = stabPrev

(* C7 amended: a second stabilizer pass changes nothing, for every       *)
(* sequence in which no LanguageChange that directly follows a marker is *)
(* followed by another LanguageChange with no Text between the two.      *)
C7_StabilizerIdempotentUnchained ==
    (passes >= 2 /\ ~HasChainedLangChange(stabIn)) => stabOut = stabPrev

(* C7 witness: two passes over a sequence without such a chain which the *)
(* first pass reordered.                                                 *)
C7_Witness ==
    /\ passes = 2
    /\ ~HasChainedLangChange(stabIn)
    /\ stabOut # stabIn
    /\ \E i \in 1..Len(stabIn) : IsLangChange(stabIn[i])

----------------------------------------------------------------------------
(* The Numeric Tagger: resplit (lines 708-743) and                        *)
(* coercionNumberLangChange (lines 745-762).                               *)

Digits == {"0", "1", "2", "3", "4", "5", "6", "7", "8", "9"}

RECURSIVE Replace(_, _, _)
(* str.replace(pat, rep) for a non-empty pat: left to right, no overlap. *)
Replace(s, pat, rep) ==
    IF Len(s) < Len(pat) THEN s
    ELSE IF SubSeq(s, 1, Len(pat)) = pat
    THEN rep \o Replace(SubSeq(s, Len(pat) + 1, Len(s)), pat, rep)
    ELSE <<Head(s)>> \o Replace(Tail(s), pat, rep)

RECURSIVE SplitDot(_)
(* str.split(".") *)
SplitDot(s) ==
    LET ds == {i \in 1..Len(s) : s[i] = "."}
    IN  IF ds = {} THEN <<s>>
        ELSE LET d == CHOOSE i \in ds : \A j \in ds : i <= j
             IN  <<SubSeq(s, 1, d - 1)>> \o SplitDot(SubSeq(s, d + 1, Len(s)))

(* The number of leading characters of s, from position i on, that are in cls. *)
RunLen(s, i, cls) ==
    LET ks == {k \in 0..(Len(s) + 1 - i) : \A j \in i..(i + k - 1) : s[j] \in cls}
    IN  CHOOSE k \in ks : \A m \in ks : m <= k

(* number_pattern = [0-9\-\+]+[0-9.:]*[0-9]+|[0-9] (line 30) tried at      *)
(* position i of s: the last position of the match, 0 when there is none.  *)
(* The first two groups are greedy and give characters back, the first     *)
(* one last, until a digit follows them.                                   *)
MatchEnd(s, i) ==
    LET amax == RunLen(s, i, Digits \cup {"-", "+"})
        ok(a, b) == /\ b <= RunLen(s, i + a, Digits \cup {".", ":"})
                    /\ i + a + b <= Len(s)
                    /\ s[i + a + b] \in Digits
        as == {a \in 1..amax : \E b \in 0..Len(s) : ok(a, b)}
    IN  IF as # {}
        THEN LET a == CHOOSE x \in as : \A y \in as : y <= x
                 bs == {b \in 0..Len(s) : ok(a, b)}
                 b == CHOOSE x \in bs : \A y \in bs : y <= x
             IN  i + a + b + RunLen(s, i + a + b, Digits) - 1
        ELSE IF s[i] \in Digits THEN i ELSE 0

RECURSIVE Matches(_, _)
(* The matches pattern.findall and pattern.split see in s from position i. *)
Matches(s, i) ==
    IF i > Len(s) THEN <<>>
    ELSE IF MatchEnd(s, i) = 0 THEN Matches(s, i + 1)
    ELSE <<[from |-> i, to |-> MatchEnd(s, i)]>> \o Matches(s, MatchEnd(s, i) + 1)

(* pattern.findall(string) *)
FindAll(s) ==
    LET m == Matches(s, 1) IN [k \in 1..Len(m) |-> SubSeq(s, m[k].from, m[k].to)]

(* pattern.split(string) *)
SplitAll(s) ==
    LET m == Matches(s, 1)
    IN  [k \in 1..(Len(m) + 1) |->
            SubSeq(s, IF k = 1 THEN 1 ELSE m[k - 1].to + 1,
                      IF k = Len(m) + 1 THEN Len(s) ELSE m[k].from - 1)]

(* translate_dict, lines 709-714; symbols maps characters to a record of *)
(* language and replacement (the empty function: no speechSymbols).      *)
TranslateDict(symbols, numberLanguage) ==
    [c \in {d \in Digits \cap DOMAIN symbols :
               symbols[d].language \in {numberLanguage, "Windows"}} |->
        IF symbols[c].replacement # <<>> THEN symbols[c].replacement ELSE <<c>>]

RECURSIVE Translate(_, _)
(* str.translate(translate_dict) *)
Translate(s, td) ==
    IF s = <<>> THEN <<>>
    ELSE (IF Head(s) \in DOMAIN td THEN td[Head(s)] ELSE <<Head(s)>>)
         \o Translate(Tail(s), td)

RECURSIVE JoinDot(_)
(* Lines 728-737: the segments, each followed by "." but the last. *)
JoinDot(segs) ==
    IF Len(segs) = 1 THEN segs[1]
    ELSE segs[1] \o <<".">> \o JoinDot(Tail(segs))

(* Mutant of NumberStr: line 726 written as dot_count > 1. *)
NumberStr_TwoSegments(number, mode, td, dotReplacement) ==
    LET dot_count == Len(SplitDot(number))
        number_str == IF mode = "value" THEN number
                      ELSE Replace(JoinChars(number), <<" ", ".", " ">>, <<".">>)
        nodot_str == SplitDot(number_str)
    IN  IF dot_count > 1 \/ mode = "number"
        THEN Replace(JoinDot([k \in 1..Len(nodot_str) |-> Translate(nodot_str[k], td)]),
                     <<".">>, dotReplacement)
        ELSE number_str

(* number_str of one numeric run, lines 720-739.  The test of lines 730  *)
(* and 734, `len(n) == 1 or "number"`, is true for every n.              *)
NumberStr(number, mode, td, dotReplacement) ==
    LET dot_count == Len(SplitDot(number))
        number_str == IF mode = "value" THEN number
                      ELSE Replace(JoinChars(number), <<" ", ".", " ">>, <<".">>)
        nodot_str == SplitDot(number_str)
    IN  IF dot_count > 2 \/ mode = "number"
        THEN Replace(JoinDot([k \in 1..Len(nodot_str) |-> Translate(nodot_str[k], td)]),
                     <<".">>, dotReplacement)
        ELSE number_str

RECURSIVE ResplitLoop(_, _, _)
(* Lines 719-741 for the pairs of zip(others, numbers) not yet visited. *)
ResplitLoop(others, numbers, cfg) ==
    IF numbers = <<>> THEN <<>>
    ELSE << Text(Head(others)),
            WVLangChangeCommand("StartNumber"),
            Text(NumberStr(Head(numbers), cfg.mode,
                           TranslateDict(cfg.symbols, cfg.numberLanguage), cfg.dot)),
            WVLangChangeCommand("EndNumber") >>
         \o ResplitLoop(Tail(others), Tail(numbers), cfg)

(* resplit(number_pattern, string, mode, numberLanguage, speechSymbols) *)
resplit(string, cfg) ==
    Append(ResplitLoop(SplitAll(string), FindAll(string), cfg),
           Text(SplitAll(string)[Len(SplitAll(string))]))

RECURSIVE SplitNumbers(_, _)
(* Lines 746-751. *)
SplitNumbers(speechSequence, cfg) ==
    IF speechSequence = <<>> THEN <<>>
    ELSE (IF Head(speechSequence).kind = "Text"
          THEN resplit(Head(speechSequence).text, cfg)
          ELSE <<Head(speechSequence)>>)
         \o SplitNumbers(Tail(speechSequence), cfg)

RECURSIVE RewriteMarkers_StartOnly(_, _, _)
(* Mutant of RewriteMarkers: lines 758-759 left out, an 'EndNumber' marker *)
(* falling to the else arm of line 760.                                    *)
RewriteMarkers_StartOnly(res, currentLang, numberLanguage) ==
    IF res = <<>> THEN <<>>
    ELSE LET command == Head(res)
         IN  IF command.kind = "WVLangChange"
             THEN IF command.lang = "StartNumber"
                  THEN <<WVLangChangeCommand(numberLanguage)>>
                       \o RewriteMarkers_StartOnly(Tail(res), currentLang, numberLanguage)
                  ELSE <<command>>
                       \o RewriteMarkers_StartOnly(Tail(res), command.lang, numberLanguage)
             ELSE <<command>>
                  \o RewriteMarkers_StartOnly(Tail(res), currentLang, numberLanguage)

RECURSIVE RewriteMarkers(_, _, _)
(* Lines 754-761 on the rest res of result, currentLang as it stands. *)
RewriteMarkers(res, currentLang, numberLanguage) ==
    IF res = <<>> THEN <<>>
    ELSE LET command == Head(res)
         IN  IF command.kind = "WVLangChange"
             THEN IF command.lang = "StartNumber"
                  THEN <<WVLangChangeCommand(numberLanguage)>>
                       \o RewriteMarkers(Tail(res), currentLang, numberLanguage)
                  ELSE IF command.lang = "EndNumber"
                  THEN <<WVLangChangeCommand(currentLang)>>
                       \o RewriteMarkers(Tail(res), currentLang, numberLanguage)
                  ELSE <<command>>
                       \o RewriteMarkers(Tail(res), command.lang, numberLanguage)
             ELSE <<command>> \o RewriteMarkers(Tail(res), currentLang, numberLanguage)

(* Text fragments of the modelled number streams: "a1", "12.5", "1.2.3", "x". *)
NumTexts == {<<"a", "1">>, <<"1", "2", ".", "5">>, <<"1", ".", "2", ".", "3">>, <<"x">>}

NumCommands ==
    {Text(s) : s \in NumTexts}
    \cup {LangChangeCommand("fr"), LangChangeCommand(NoneLang), WVLangChangeCommand("de")}

NumInputs ==
    UNION {[1..len -> NumCommands] : len \in 0..MaxNumLen}

(* speechSymbols: none, or entries for "1" (number language), "2" (any   *)
(* language), "3" (another language), "5" (no replacement).              *)
SymbolTables(numberLanguage) ==
    { <<>>,
      [c \in {"1", "2", "3", "5"} |->
          CASE c = "1" -> [language |-> numberLanguage, replacement |-> <<"o", "n", "e">>]
            [] c = "2" -> [language |-> "Windows", replacement |-> <<"t", "w", "o">>]
            [] c = "3" -> [language |-> "xx", replacement |-> <<"t", "r", "i">>]
            [] c = "5" -> [language |-> numberLanguage, replacement |-> <<>>]] }

NumCfgs ==
    UNION {{[mode |-> m, numberLanguage |-> nl, symbols |-> st, dot |-> d] :
               m \in {"value", "number"}, st \in SymbolTables(nl),
               d \in {<<".">>, <<"p">>}} : nl \in {"ja", "en"}}

InitNum ==
    /\ numCfg \in NumCfgs
    /\ numIn \in NumInputs
    /\ result = <<>>
    /\ numPc = "split"
    /\ MuxIdle
    /\ StabIdle
    /\ HookIdle

(* Lines 746-751: every str is replaced by resplit's pieces. *)
NumSplit ==
    /\ numPc = "split"
    /\ result' = SplitNumbers(numIn, numCfg)
    /\ numPc' = "rewrite"
    /\ UNCHANGED <<numCfg, numIn, muxVars, stabVars, hookVars>>

(* Lines 753-762: the markers get their languages; currentLang starts as *)
(* self.language.                                                        *)
NumRewrite ==
    /\ numPc = "rewrite"
    /\ result' = RewriteMarkers(result, defaultLanguage, numCfg.numberLanguage)
    /\ numPc' = "done"
    /\ UNCHANGED <<numCfg, numIn, muxVars, stabVars, hookVars>>

NextNum == NumSplit \/ NumRewrite

SpecNum == InitNum /\ [][NextNum]_vars

(* A language-change instruction of the input, not a number marker. *)
IsTrueLangChange(command) ==
    /\ IsLangChange(command)
    /\ command.lang \notin {"StartNumber", "EndNumber"}

(* The language in force at position p of res: that of the last true *)
(* language change before p, the driver's language when there is none. *)
InForce(res, p) ==
    LET js == {j \in 1..(p - 1) : IsTrueLangChange(res[j])}
    IN  IF js = {} THEN defaultLanguage
        ELSE res[CHOOSE j \in js : \A i \in js : i <= j].lang

(* The codes that restore language l: l itself; after a change to None *)
(* (back to the default voice) the driver's language does as well.     *)
Restoring(l) == IF l = NoneLang THEN {NoneLang, defaultLanguage} ELSE {l}

(* C10: after coercionNumberLangChange every end-of-number marker       *)
(* carries the language in force before its number (that of the last    *)
(* LangChangeCommand or WVLangChangeCommand before it, else the         *)
(* driver's language), every start-of-number marker the number locale.  *)
C10_EndNumberRestoresLanguage ==
    numPc = "done" =>
        LET split == SplitNumbers(numIn, numCfg)
        IN  \A p \in 1..Len(split) :
               /\ split[p] = WVLangChangeCommand("EndNumber")
                    => /\ result[p].kind = "WVLangChange"
                       /\ result[p].lang \in Restoring(InForce(split, p))
               /\ split[p] = WVLangChangeCommand("StartNumber")
                    => result[p] = WVLangChangeCommand(numCfg.numberLanguage)

----------------------------------------------------------------------------
(* speak with DetectLanguageTiming = 'after' (lines 213-246): the numeric *)
(* tagger, then the stabilizer pass, then the loop; comma stripping,      *)
(* language detection, the script spacer and normalization switched off.  *)

MaxPipeLen == 3

RoomStream ==
    << Text(<<"R", "o", "o", "m", " ">>), Text(<<"1", "0", "1">>),
       Text(<<" ", "i", "s", " ", "r", "e", "a", "d", "y">>) >>

PipeCommands ==
    Range(RoomStream)
    \cup {LangChangeCommand("fr"), LangChangeCommand(NoneLang), WVLangChangeCommand("fr")}

PipeInputs == UNION {[1..len -> PipeCommands] : len \in 0..MaxPipeLen}

(* _nummod, _numlan (the driver language or another one), no symbol table. *)
PipeCfgs ==
    {[mode |-> m, numberLanguage |-> nl, symbols |-> <<>>, dot |-> <<".">>] :
        m \in {"value", "number"}, nl \in {defaultLanguage, "fr"}}

InitPipe ==
    /\ numCfg \in PipeCfgs
    /\ numIn \in PipeInputs
    /\ result = <<>>
    /\ numPc = "split"
    /\ StabIdle
    /\ HookIdle
    /\ open = FALSE
    /\ stream = <<>>
    /\ n = 0
    /\ pc = "idle"
    /\ engine \in [Voices -> Engines]
    /\ prosody = VoiceSettings
    /\ voiceInstance = defaultInstance
    /\ currentLanguage = defaultLanguage
    /\ chunks = <<>>
    /\ hasText = FALSE
    /\ charMode = FALSE
    /\ textList = <<>>
    /\ tags = <<>>
    /\ tagsChanged = TRUE
    /\ openedTags = <<>>
    /\ item = Unbound
    /\ calls = <<>>
    /\ lookups = <<>>
    /\ fed = <<>>

(* Lines 232-263: the tagged sequence is stabilized and becomes the *)
(* sequence the loop iterates.                                       *)
PipeStabilize ==
    /\ numPc = "done"
    /\ pc = "idle"
    /\ stabIn' = result
    /\ stabPrev' = result
    /\ stabOut' = Stabilizer(result)
    /\ passes' = 1
    /\ stream' = Stabilizer(result)
    /\ pc' = "loop"
    /\ UNCHANGED <<open, n, engine, prosody, lookups, voiceInstance, currentLanguage, chunks,
                   hasText, charMode, textList, tags, tagsChanged, openedTags, item,
                   calls, fed, numVars, hookVars>>

NextPipe ==
    \/ NumSplit
    \/ NumRewrite
    \/ PipeStabilize
    \/ \E s \in {stream[i].text : i \in {j \in 1..Len(stream) : stream[j].kind = "Text"}} :
          SpeakText(s)
    \/ \E lang \in Languages \cup {NoneLang} : SpeakLangChange(lang)
    \/ \E lang \in Languages \cup {NoneLang} : SpeakWVLangChange(lang)
    \/ SpeakEnd

SpecPipe == InitPipe /\ [][NextPipe]_vars

(* The instruction the loop just consumed is a number marker of the      *)
(* tagger (no instruction of these streams is moved by the stabilizer,   *)
(* so a position of the stream is a position of the tagger's result).    *)
LastIsNumberMarker ==
    /\ Stepped
    /\ stream' = result
    /\ SplitNumbers(numIn, numCfg)[n'].kind = "WVLangChange"
    /\ SplitNumbers(numIn, numCfg)[n'].lang \in {"StartNumber", "EndNumber"}

(* C12: with the number locale equal to the language in force at the     *)
(* number, a start- or end-of-number marker switches no voice and makes  *)
(* no backend call; and speak with mode "value" and the number locale    *)
(* equal to the driver language hands ["Room ", "101", " is ready"] to   *)
(* the default voice in one flush.                                       *)
C12_NumberDoesNotSplit ==
    [][ /\ (/\ LastIsNumberMarker
            /\ InForce(SplitNumbers(numIn, numCfg), n') = numCfg.numberLanguage)
           => /\ calls' = calls
              /\ voiceInstance' = voiceInstance
        /\ (/\ pc' = "done"
            /\ numIn = RoomStream
            /\ numCfg.mode = "value"
            /\ numCfg.numberLanguage = defaultLanguage)
           => /\ Len(calls') = 1
              /\ calls'[1].voice = defaultInstance
              /\ calls'[1].op = "speak"
              /\ Ids(calls'[1].payload) = fed' ]_vars

----------------------------------------------------------------------------
(* resplit on one string (lines 708-743), as called at line 749. *)

MaxRunLen == 4

RunAlphabet == {"1", "2", "5", ".", ":", "a"}

(* "12.500", "3.14", "192.168.1.1", "12.5.1" *)
NamedRuns ==
    { <<"1", "2", ".", "5", "0", "0">>, <<"3", ".", "1", "4">>,
      <<"1", "9", "2", ".", "1", "6", "8", ".", "1", ".", "1">>,
      <<"1", "2", ".", "5", ".", "1">> }

ResplitStrings ==
    UNION {[1..len -> RunAlphabet] : len \in 0..MaxRunLen} \cup NamedRuns

InitResplit ==
    /\ numCfg \in NumCfgs
    /\ numIn \in {<<Text(string)>> : string \in ResplitStrings}
    /\ result = <<>>
    /\ numPc = "split"
    /\ MuxIdle
    /\ StabIdle
    /\ HookIdle

NextResplit == NumSplit

SpecResplit == InitResplit /\ [][NextResplit]_vars

(* The numeric runs of the string and what resplit emitted for each. *)
Runs == FindAll(numIn[1].text)

Emitted(k) == result[4 * k - 1].text

Segments(number) == SplitDot(number)

RECURSIVE JoinWith(_, _)
(* The strings of parts with sep between neighbours. *)
JoinWith(parts, sep) ==
    IF parts = <<>> THEN <<>>
    ELSE IF Len(parts) = 1 THEN parts[1]
    ELSE parts[1] \o sep \o JoinWith(Tail(parts), sep)

(* The table entry of a digit for the number locale, else the character. *)
Symbol(c) ==
    Translate(<<c>>, TranslateDict(numCfg.symbols, numCfg.numberLanguage))

(* A segment with every character replaced by its symbol, the symbols *)
(* separated by one space.                                            *)
Spaced(seg) == JoinWith([i \in 1..Len(seg) |-> Symbol(seg[i])], <<" ">>)

(* A segment with every character replaced by its symbol. *)
Substituted(seg) == JoinWith([i \in 1..Len(seg) |-> Symbol(seg[i])], <<>>)

(* C13: in mode "number" resplit emits, for every numeric run, the       *)
(* '.'-delimited segments with every digit replaced by its symbol and    *)
(* separated by a space, joined by numberDotReplacement; the emitted     *)
(* string is not the literal run when the run holds a '.' and the        *)
(* separator is not '.', or holds a digit whose symbol is not the digit. *)
C13_NumberModeSpacesDigits ==
    (numPc = "rewrite" /\ numCfg.mode = "number") =>
        \A k \in 1..Len(Runs) :
            /\ Emitted(k) =
                  JoinWith([i \in 1..Len(Segments(Runs[k])) |->
                               Spaced(Segments(Runs[k])[i])], numCfg.dot)
            /\ (\/ ("." \in Range(Runs[k]) /\ numCfg.dot # <<".">>)
                \/ \E c \in Range(Runs[k]) : Symbol(c) # <<c>>)
                  => Emitted(k) # Runs[k]

(* C14: in mode "value" resplit emits a numeric run of at most two       *)
(* '.'-separated segments literally, whatever the symbol table and the   *)
(* separator setting.                                                    *)
C14_ValueModeLiteral ==
    (numPc = "rewrite" /\ numCfg.mode = "value") =>
        \A k \in 1..Len(Runs) :
            Len(Segments(Runs[k])) <= 2 => Emitted(k) = Runs[k]

(* C14 witness: "3.14" went through resplit in mode "value" with a symbol *)
(* table that has an entry for "1" and a separator other than '.'.        *)
C14_Witness ==
    /\ numPc = "rewrite"
    /\ numCfg.mode = "value"
    /\ numIn = <<Text(<<"3", ".", "1", "4">>)>>
    /\ numCfg.symbols # <<>>
    /\ numCfg.dot # <<".">>
    /\ Symbol("1") # <<"1">>
    /\ Len(result) = 5
    /\ result[3] = Text(<<"3", ".", "1", "4">>)

(* C15: in mode "value" resplit emits, for a numeric run of more than    *)
(* two '.'-separated segments, the segments of one character replaced    *)
(* by their symbol and the longer segments unmodified (joined by         *)
(* numberDotReplacement).                                                *)
C15_ValueModeLoneDigitsOnly ==
    (numPc = "rewrite" /\ numCfg.mode = "value") =>
        \A k \in 1..Len(Runs) :
            Len(Segments(Runs[k])) > 2 =>
                Emitted(k) =
                    JoinWith([i \in 1..Len(Segments(Runs[k])) |->
                                 IF Len(Segments(Runs[k])[i]) = 1
                                 THEN Substituted(Segments(Runs[k])[i])
                                 ELSE Segments(Runs[k])[i]], numCfg.dot)

----------------------------------------------------------------------------
(* C16: no step of speak changes the pitch, rate or volume of a voice     *)
(* handle.                                                                *)
C16_ProsodyNeverWritten == [][prosody' = prosody]_vars

(* C16 witness: speak returned from a stream with a Pitch, a Rate and a   *)
(* Volume command of multiplier 2 processed under a markup voice, which   *)
(* staged or emitted their elements; the settings are the initial ones.   *)
C16_Witness ==
    /\ pc = "done"
    /\ engine[defaultInstance] = "SAPI5"
    /\ {stream[i].kind : i \in 1..Len(stream)} = {"Pitch", "Rate", "Volume", "Text"}
    /\ \A i \in 1..Len(stream) : stream[i].kind # "Text" => stream[i].multiplier = 2
    /\ stream[Len(stream)].kind = "Text"
    /\ \E k \in 1..Len(calls) :
          {"pitch", "rate", "volume"} \subseteq
              {calls[k].payload[j].tag :
                  j \in {i \in 1..Len(calls[k].payload) : calls[k].payload[i].k = "open"}}
    /\ prosody = VoiceSettings

(* C17: a LanguageChange whose code is the current language changes      *)
(* neither the active voice, the current language, the chunk list, the   *)
(* text list, the tag set nor the dirty flag, asks the voice manager     *)
(* for no voice and makes no backend call, for every engine.             *)
C17_SameLanguageNoOp ==
    [][ (/\ Stepped
         /\ Last.kind = "LangChange"
         /\ Last.lang = currentLanguage)
          => UNCHANGED <<voiceInstance, currentLanguage, chunks, hasText, charMode,
                         textList, tags, tagsChanged, openedTags, lookups,
                         calls>> ]_vars

(* C17 witness: LanguageChange("fr"), a Text, LanguageChange("fr") were  *)
(* processed: V is active with the text still buffered, the voice        *)
(* manager was asked once.                                               *)
C17_Witness ==
    /\ n >= 3
    /\ stream[n] = LangChangeCommand("fr")
    /\ stream[n - 1].kind = "Text"
    /\ stream[n - 2] = LangChangeCommand("fr")
    /\ currentLanguage = "fr"
    /\ voiceInstance = "V"
    /\ chunks \o textList # <<>>
    /\ lookups = <<"fr">>
    /\ calls = <<>>

(* The buffer the active voice's engine collects its payload in. *)
PendingBuffer == IF engine[voiceInstance] = "SAPI5" THEN textList ELSE chunks

(* C18: a Split hands every piece of the pending buffer to the active    *)
(* voice and leaves the buffer empty, for every engine; the active voice *)
(* and the current language stay as they are.                            *)
C18_SplitFlushes ==
    [][ (Stepped /\ Last.kind = "Split")
          => /\ voiceInstance' = voiceInstance
             /\ currentLanguage' = currentLanguage
             /\ \A piece \in Range(PendingBuffer) :
                   \E k \in 1..Len(NewCalls) :
                       /\ NewCalls[k].voice = voiceInstance
                       /\ NewCalls[k].op = "speak"
                       /\ piece \in Range(NewCalls[k].payload)
             /\ PendingBuffer' = <<>> ]_vars

(* The tag set right after a change to voice v: empty, or only the pitch *)
(* entry of v when v is a markup voice.                                  *)
FreshTags(v) == IF engine[v] = "SAPI5" THEN {<<>>, SetTag(<<>>, "pitch", PitchAttrs(v))}
                ELSE {<<>>}

(* C19: the tag set is empty when the loop starts, and after every step  *)
(* that changes the active voice it holds nothing but the pitch entry    *)
(* seeded from the new voice.                                            *)
C19_TagsResetOnVoiceChange ==
    [][ /\ n = 0 => tags = <<>>
        /\ (voiceInstance' # voiceInstance /\ Stabilizer(stream') = stream')
             => tags' \in FreshTags(voiceInstance') ]_vars

(* The positions before j of a markup payload where a pitch element is *)
(* opened or closed.                                                   *)
PitchEdges(payload, j) ==
    {i \in 1..(j - 1) : payload[i].k \in {"open", "close"} /\ payload[i].tag = "pitch"}

(* Position j of a markup payload lies inside an open pitch element. *)
InsidePitch(payload, j) ==
    /\ PitchEdges(payload, j) # {}
    /\ payload[CHOOSE i \in PitchEdges(payload, j) :
                  \A h \in PitchEdges(payload, j) : h <= i].k = "open"

(* C20: in every payload handed to a markup voice every Text fragment    *)
(* lies inside an open pitch element.                                    *)
C20_TextInsidePitchElement ==
    \A c \in 1..Len(calls) :
        (calls[c].op = "speak" /\ engine[calls[c].voice] = "SAPI5")
          => \A j \in 1..Len(calls[c].payload) :
                calls[c].payload[j].k = "text" => InsidePitch(calls[c].payload, j)

----------------------------------------------------------------------------
(* outputTags (lines 264-280) called on its own, from any staging the    *)
(* loop can have built: open tags and tag-set entries in any order.      *)

MaxTags == 3

(* The sequences of at most MaxTags distinct elements of S. *)
Arrangements(S) ==
    UNION {{f \in [1..len -> S] : \A i \in 1..len, j \in 1..len : f[i] = f[j] => i = j} :
             len \in 0..MaxTags}

(* The entry the loop stages under a name (lines 280, 367, 386, 395),    *)
(* with multiplier 2 and the settings of the active voice.               *)
StagedEntry(name, v) ==
    CASE name = "pitch" -> [tag |-> "pitch", attrs |-> PitchAttrs(v)]
      [] name = "rate" ->
           [tag |-> "rate", attrs |-> <<[attr |-> "absspeed", val |-> VoiceRate(v) * 2]>>]
      [] name = "volume" ->
           [tag |-> "volume", attrs |-> <<[attr |-> "level", val |-> VoiceVolume(v) * 2]>>]
      [] name = "spell" -> [tag |-> "spell", attrs |-> <<>>]

InitTags ==
    /\ open = FALSE
    /\ stream = <<>>
    /\ n = 0
    /\ pc = "outputTags"
    /\ engine \in [Voices -> {"SAPI5", "VE"}]
    /\ prosody = VoiceSettings
    /\ voiceInstance = defaultInstance
    /\ currentLanguage = defaultLanguage
    /\ chunks = <<>>
    /\ hasText = FALSE
    /\ charMode = FALSE
    /\ textList \in {<<>>, <<TextPiece(<<"A">>, 1)>>}
    /\ \E names \in Arrangements({"pitch", "rate", "volume", "spell"}) :
          tags = [i \in 1..Len(names) |-> StagedEntry(names[i], voiceInstance)]
    /\ tagsChanged \in BOOLEAN
    /\ openedTags \in Arrangements({"pitch", "rate", "volume", "spell"})
    /\ item = Unbound
    /\ calls = <<>>
    /\ lookups = <<>>
    /\ fed = <<>>
    /\ StabIdle
    /\ HookIdle
    /\ NumIdle

(* One call of outputTags(). *)
OutputTagsCall ==
    LET out == outputTags(textList, openedTags, tags, tagsChanged, voiceInstance)
    IN  /\ pc = "outputTags"
        /\ pc' = "returned"
        /\ textList' = out.textList
        /\ openedTags' = out.openedTags
        /\ tags' = out.tags
        /\ tagsChanged' = out.tagsChanged
        /\ UNCHANGED <<open, stream, n, engine, prosody, voiceInstance, currentLanguage,
                       chunks, hasText, charMode, item, calls, lookups, fed, stabVars,
                       numVars, hookVars>>

NextTags == OutputTagsCall

SpecTags == InitTags /\ [][NextTags]_vars

(* The pieces the call put in the text list after the closing elements. *)
OpenedPart == SubSeq(textList', Len(textList) + Len(openedTags) + 1, Len(textList'))

(* Position p of seq holds the i-th opening element of seq. *)
IsNthOpen(seq, p, i) ==
    /\ seq[p].k = "open"
    /\ Cardinality({q \in 1..p : seq[q].k = "open"}) = i

(* C21: outputTags with the dirty flag unset appends nothing and leaves  *)
(* the open-tag list and the tag set alone; with the flag set it appends *)
(* a closing element for every open tag in reverse open order, then one  *)
(* opening element with its attributes for every entry of the tag set in *)
(* insertion order, records these as the open tags and clears the flag.  *)
C21_OutputTagsContract ==
    [][ (pc = "outputTags" /\ pc' = "returned")
          => IF ~tagsChanged
             THEN /\ textList' = textList
                  /\ openedTags' = openedTags
                  /\ tags' = tags
                  /\ tagsChanged' = FALSE
             ELSE /\ SubSeq(textList', 1, Len(textList)) = textList
                  /\ \A i \in 1..Len(openedTags) :
                        textList'[Len(textList) + i] =
                            [k |-> "close", tag |-> openedTags[Len(openedTags) + 1 - i]]
                  /\ Cardinality({q \in 1..Len(OpenedPart) : OpenedPart[q].k = "open"})
                        = Len(tags)
                  /\ Cardinality({q \in 1..Len(OpenedPart) : OpenedPart[q].k = "gt"})
                        = Len(tags)
                  /\ \A q \in 1..Len(OpenedPart) : OpenedPart[q].k \in {"open", "attr", "gt"}
                  /\ \A i \in 1..Len(tags), q \in 1..Len(OpenedPart) :
                        IsNthOpen(OpenedPart, q, i)
                          => /\ OpenedPart[q].tag = tags[i].tag
                             /\ \A a \in 1..Len(tags[i].attrs) :
                                   OpenedPart[q + a] =
                                       [k |-> "attr", attr |-> tags[i].attrs[a].attr,
                                        val |-> tags[i].attrs[a].val]
                             /\ OpenedPart[q + Len(tags[i].attrs) + 1].k = "gt"
                  /\ openedTags' = [i \in 1..Len(tags) |-> tags[i].tag]
                  /\ tagsChanged' = FALSE ]_vars

(* C21 witness: outputTags returned after closing three open elements   *)
(* and opening three others, in an order that is not the order closed.   *)
C21_Witness ==
    /\ pc = "returned"
    /\ ~tagsChanged
    /\ Len(openedTags) = 3
    /\ Cardinality({q \in 1..Len(textList) : textList[q].k = "close"}) = 3
    /\ textList[1].k = "text"
    /\ textList[2].tag # openedTags[3]

----------------------------------------------------------------------------
(* The script spacer, patchedSpaceSpeechSequence (lines 651-681), with    *)
(* chinese_space_pattern = (?<=[\u4e00-\u9fa5])\s+(?=[\u4e00-\u9fa5])       *)
(* (line 32).  Two logographic characters are written "U4E2D", "U6587".   *)

MaxSpaceLen == 3

Logographic == {"U4E2D", "U6587"}

RECURSIVE JoinStrings(_, _)
(* Lines 653-663: runs of str joined; a str (possibly empty) is put in   *)
(* front of every other instruction and at the end.                      *)
JoinStrings(seq, joinString) ==
    IF seq = <<>> THEN <<Text(joinString)>>
    ELSE IF Head(seq).kind # "Text"
    THEN <<Text(joinString), Head(seq)>> \o JoinStrings(Tail(seq), <<>>)
    ELSE JoinStrings(Tail(seq), joinString \o Head(seq).text)

(* chinese_space_pattern tried at position i of s: the last position of *)
(* the match, 0 when there is none.  \s+ is greedy and a blank cannot   *)
(* satisfy the lookahead, so only the whole run of blanks can match.    *)
SpaceMatchEnd(s, i) ==
    LET run == RunLen(s, i, Whitespace)
    IN  IF /\ i > 1
           /\ s[i - 1] \in Logographic
           /\ run >= 1
           /\ i + run <= Len(s)
           /\ s[i + run] \in Logographic
        THEN i + run - 1 ELSE 0

RECURSIVE SpaceSplitFrom(_, _, _)
(* re.split(chinese_space_pattern, command) from position i on, the *)
(* piece under way starting at position from.                       *)
SpaceSplitFrom(s, i, from) ==
    IF i > Len(s) THEN <<SubSeq(s, from, Len(s))>>
    ELSE IF SpaceMatchEnd(s, i) = 0 THEN SpaceSplitFrom(s, i + 1, from)
    ELSE <<SubSeq(s, from, i - 1)>>
         \o SpaceSplitFrom(s, SpaceMatchEnd(s, i) + 1, SpaceMatchEnd(s, i) + 1)

(* re.split(chinese_space_pattern, command), line 668 *)
SpaceSplit(s) == SpaceSplitFrom(s, 1, 1)

RECURSIVE WithBreaks_Trailing(_, _)
(* Mutant of WithBreaks: line 676, temp = temp[:-1], left out. *)
WithBreaks_Trailing(pieces, t) ==
    IF pieces = <<>> THEN <<>>
    ELSE <<Text(Head(pieces)), BreakCommand(t)>> \o WithBreaks_Trailing(Tail(pieces), t)

RECURSIVE WithBreaks(_, _)
(* Lines 672-676: the pieces with a BreakCommand between neighbours. *)
WithBreaks(pieces, t) ==
    IF Len(pieces) = 1 THEN <<Text(pieces[1])>>
    ELSE <<Text(Head(pieces)), BreakCommand(t)>> \o WithBreaks(Tail(pieces), t)

RECURSIVE SplitSpaces(_, _)
(* Lines 665-680. *)
SplitSpaces(seq, chinesespace) ==
    IF seq = <<>> THEN <<>>
    ELSE (IF Head(seq).kind = "Text"
          THEN IF Len(SpaceSplit(Head(seq).text)) = 1 THEN <<Head(seq)>>
               ELSE WithBreaks(SpaceSplit(Head(seq).text), chinesespace * 5)
          ELSE <<Head(seq)>>)
         \o SplitSpaces(Tail(seq), chinesespace)

(* Lines 651-681. *)
patchedSpaceSpeechSequence(speechSequence, chinesespace) ==
    IF chinesespace # 0
    THEN SplitSpaces(JoinStrings(speechSequence, <<>>), chinesespace)
    ELSE speechSequence

(* "X Y", "X ", "Y", "a X", "X  Y a" with X, Y logographic *)
SpaceTexts ==
    { <<"U4E2D", " ", "U6587">>, <<"U4E2D", " ">>, <<"U6587">>, <<"a", " ", "U4E2D">>,
      <<"U4E2D", " ", " ", "U6587", " ", "a">> }

SpaceCommands ==
    {Text(t) : t \in SpaceTexts} \cup {IndexCommand(1), BreakCommand(5)}

SpaceInputs == UNION {[1..len -> SpaceCommands] : len \in 0..MaxSpaceLen}

(* int(self._chinesespace) *)
SpaceFactors == {0, 1, 2}

InitSpace ==
    /\ numCfg \in {[chinesespace |-> f] : f \in SpaceFactors}
    /\ numIn \in SpaceInputs
    /\ result = <<>>
    /\ numPc = "space"
    /\ MuxIdle
    /\ StabIdle
    /\ HookIdle

(* One call of patchedSpaceSpeechSequence. *)
PatchSpace ==
    /\ numPc = "space"
    /\ result' = patchedSpaceSpeechSequence(numIn, numCfg.chinesespace)
    /\ numPc' = "spaced"
    /\ UNCHANGED <<numCfg, numIn, muxVars, stabVars, hookVars>>

NextSpace == PatchSpace

SpecSpace == InitSpace /\ [][NextSpace]_vars

(* Position p of the string s lies in a run of blanks that has a *)
(* logographic character directly on both sides.                 *)
InBoundary(s, p) ==
    \E i \in 2..p, j \in p..(Len(s) - 1) :
        /\ \A q \in i..j : s[q] \in Whitespace
        /\ s[i - 1] \in Logographic
        /\ s[j + 1] \in Logographic

(* The number of such runs in s. *)
BoundaryCount(s) ==
    Cardinality({p \in 1..Len(s) : InBoundary(s, p) /\ ~InBoundary(s, p - 1)})

RECURSIVE TextRuns(_, _)
(* A stream as its non-text instructions, each preceded by the text *)
(* (concatenated) that stands before it, and the text at the end.   *)
TextRuns(seq, acc) ==
    IF seq = <<>> THEN <<acc>>
    ELSE IF Head(seq).kind = "Text" THEN TextRuns(Tail(seq), acc \o Head(seq).text)
    ELSE <<acc, Head(seq)>> \o TextRuns(Tail(seq), <<>>)

RECURSIVE ExpectedRuns(_, _, _, _)
(* The runs of a stream whose text is the text s from position p on, a  *)
(* Break(t) standing for every boundary run of blanks, then rest.       *)
ExpectedRuns(s, p, acc, t) ==
    IF p > Len(s) THEN <<acc>>
    ELSE IF ~InBoundary(s, p) THEN ExpectedRuns(s, p + 1, Append(acc, s[p]), t)
    ELSE IF InBoundary(s, p - 1) THEN ExpectedRuns(s, p + 1, acc, t)
    ELSE <<acc, BreakCommand(t)>> \o ExpectedRuns(s, p + 1, <<>>, t)

RECURSIVE ExpectedSpaced(_, _)
(* The runs of the spaced stream, from the runs of the input. *)
ExpectedSpaced(runs, t) ==
    IF Len(runs) = 1 THEN ExpectedRuns(runs[1], 1, <<>>, t)
    ELSE ExpectedRuns(runs[1], 1, <<>>, t) \o <<runs[2]>>
         \o ExpectedSpaced(SubSeq(runs, 3, Len(runs)), t)

NonText(seq) == SelectSeq(seq, LAMBDA c : c.kind # "Text")

(* C22: patchedSpaceSpeechSequence returns its input when the factor is  *)
(* 0; otherwise the output has the non-text instructions of the input,   *)
(* in order and with the same text between them, except that every run   *)
(* of blanks directly between two logographic characters is replaced by  *)
(* one Break(factor * 5), and no other non-text instruction is added.    *)
C22_SpacerKeepsInstructions ==
    numPc = "spaced" =>
        IF numCfg.chinesespace = 0 THEN result = numIn
        ELSE /\ TextRuns(result, <<>>) =
                    ExpectedSpaced(TextRuns(numIn, <<>>), numCfg.chinesespace * 5)
             /\ Len(NonText(result)) = Len(NonText(numIn))
                    + BoundaryCount(TextRuns(numIn, <<>>)[1])
                    + (IF Len(numIn) = 0 THEN 0
                       ELSE LET runs == TextRuns(numIn, <<>>)
                                ks == {k \in 2..Len(runs) : k % 2 = 1}
                                RECURSIVE Sum(_)
                                Sum(S) == IF S = {} THEN 0
                                          ELSE LET x == CHOOSE y \in S : TRUE
                                               IN  BoundaryCount(runs[x]) + Sum(S \ {x})
                            IN  Sum(ks))

(* C22 witness: a nonzero factor, an input whose text holds a boundary   *)
(* that spans two str instructions and an IndexCommand; the output has   *)
(* the Break and the IndexCommand.                                       *)
C22_Witness ==
    /\ numPc = "spaced"
    /\ numCfg.chinesespace = 2
    /\ numIn = << Text(<<"U4E2D", " ">>), Text(<<"U6587">>), IndexCommand(1) >>
    /\ NonText(result) = << BreakCommand(10), IndexCommand(1) >>

----------------------------------------------------------------------------
(* speak on streams of Pitch, Rate and Volume commands for a             *)
(* chunk-protocol default voice, the value of a command being any        *)
(* integer from below 0 to above 100.                                    *)

MaxScaleLen == 2

(* command.newValue *)
ScaleValues == -2..102

InitScale ==
    /\ Init
    /\ engine[defaultInstance] = "VE"

NextScale ==
    \/ \E v \in ScaleValues : n < MaxScaleLen /\ SpeakPitch(1, v)
    \/ \E v \in ScaleValues : n < MaxScaleLen /\ SpeakRate(1, v)
    \/ \E v \in ScaleValues : n < MaxScaleLen /\ SpeakVolume(1, v)
    \/ SpeakEnd

SpecScale == InitScale /\ [][NextScale]_vars

(* v brought into 0..100. *)
Clamped(v) == IF v < 0 THEN 0 ELSE IF v > 100 THEN 100 ELSE v

(* round(100 * 2^((b - 50) / f)) for b in 0..100, f being 25 or 50. *)
Scaled(b, f) == IF f = 25 THEN Pow2Factor25[b - 49] ELSE Pow2Factor50[b + 1]

(* The token a command of the stream must have added to the chunks. *)
ScaleToken(c) ==
    LET b == Clamped(c.newValue)
    IN  CASE c.kind = "Rate" -> EscPiece("rate", Scaled(b, IF b >= 50 THEN 25 ELSE 50))
          [] c.kind = "Pitch" -> EscPiece("pitch", Scaled(b, 50))
          [] c.kind = "Volume" -> EscPiece("vol", b)

(* C23: for a chunk-protocol voice the token of a Rate or Pitch command  *)
(* carries round(100 * 2^((b - 50) / f)) of the value b clamped to       *)
(* 0..100, f = 25 for a rate of 50 or more and 50 otherwise; 50 gives    *)
(* 100, rate 0 gives 50, rate 100 gives 400, pitch 0 gives 50, pitch 100 *)
(* gives 200; a greater value never gives a smaller token; rate tokens   *)
(* lie in 50..400 and pitch tokens in 50..200; the token of a Volume     *)
(* command carries the clamped value.                                    *)
C23_ScaledTokens ==
    /\ Len(chunks) = n
    /\ \A k \in 1..n :
          LET c == stream[k]
              b == Clamped(c.newValue)
              t == chunks[k]
          IN  /\ t = ScaleToken(c)
              /\ c.kind \in {"Rate", "Pitch"} /\ b = 50 => t.v = 100
              /\ c.kind \in {"Rate", "Pitch"} /\ c.newValue <= 0 => t.v = 50
              /\ c.kind = "Rate" /\ c.newValue >= 100 => t.v = 400
              /\ c.kind = "Pitch" /\ c.newValue >= 100 => t.v = 200
              /\ c.kind = "Rate" => t.v \in 50..400
              /\ c.kind = "Pitch" => t.v \in 50..200
              /\ c.kind = "Volume" => t.v = b
    /\ \A j, k \in 1..n :
          /\ stream[j].kind = stream[k].kind
          /\ stream[j].newValue <= stream[k].newValue
          => chunks[j].v <= chunks[k].v

(* C23 witness: a rate below 0 and a rate above 100 have been mapped. *)
C23_Witness ==
    /\ pc = "loop"
    /\ stream = << RateCommand(1, -2), RateCommand(1, 102) >>
    /\ chunks = << EscPiece("rate", 50), EscPiece("rate", 400) >>

----------------------------------------------------------------------------
(* speak on streams of a two-character str, CharacterMode commands and   *)
(* language changes.                                                     *)

NextCharMode ==
    \/ SpeakText(<<"A", "B">>)
    \/ \E state \in BOOLEAN : SpeakCharacterMode(state)
    \/ \E lang \in {"en", "fr", NoneLang} : SpeakLangChange(lang)
    \/ SpeakEnd

SpecCharMode == Init /\ [][NextCharMode]_vars

(* The positions before id of the stream that hold a CharacterMode. *)
ModesBefore(id) == {k \in 1..(id - 1) : stream[k].kind = "CharacterMode"}

(* The state of the most recent CharacterMode before position id. *)
ModeAt(id) ==
    /\ ModesBefore(id) # {}
    /\ stream[CHOOSE k \in ModesBefore(id) : \A h \in ModesBefore(id) : h <= k].state

RECURSIVE SingleSpaced(_)
(* The characters of s with one blank between neighbours. *)
SingleSpaced(s) ==
    IF Len(s) <= 1 THEN s
    ELSE <<s[1], " ">> \o SingleSpaced(SubSeq(s, 2, Len(s)))

(* C24: a Text handed to a plain-call voice is sent with single blanks   *)
(* between its characters when the most recent CharacterMode before it   *)
(* in the stream had state true, and verbatim otherwise, whichever       *)
(* engine processed that CharacterMode and whatever voice changes lie    *)
(* between; stated for the streams the stabilizer pass of lines 232-246  *)
(* hands to the loop as they are.                                        *)
C24_CharModeFollowsStream ==
    \A c \in 1..Len(calls) :
        (/\ Stabilizer(stream) = stream
         /\ calls[c].op = "speak"
         /\ engine[calls[c].voice] = "aisound")
          => \A j \in 1..Len(calls[c].payload) :
                LET piece == calls[c].payload[j]
                IN  piece.k = "text"
                      => piece.s = IF ModeAt(piece.id)
                                   THEN SingleSpaced(stream[piece.id].text)
                                   ELSE stream[piece.id].text

----------------------------------------------------------------------------
(* The index marks a payload carries: \mrk= tokens and Bookmark elements. *)
MarkPieces(payload) ==
    SelectSeq(payload, LAMBDA x : (x.k = "esc" /\ x.d = "mrk") \/ x.k = "bookmark")

RECURSIVE MarksDelivered(_)
(* The number of index marks the calls cs handed to voices. *)
MarksDelivered(cs) ==
    IF cs = <<>> THEN 0
    ELSE (CASE Head(cs).op = "speak" -> Len(MarkPieces(Head(cs).payload))
            [] Head(cs).op = "index" -> 1
            [] OTHER -> 0)
         + MarksDelivered(Tail(cs))

(* C25: when speak returns, the voices have received as many index marks *)
(* (inline in a payload or by an index call) as the stream holds         *)
(* IndexCommands, none lost and none repeated; stated for the streams    *)
(* the stabilizer pass of lines 232-246 hands to the loop as they are.   *)
C25_EveryIndexDeliveredOnce ==
    (pc = "done" /\ Stabilizer(stream) = stream) =>
        MarksDelivered(calls)
          = Len(SelectSeq(stream, LAMBDA c : c.kind = "Index"))

----------------------------------------------------------------------------
(* speak on given streams of text, Rate and CharacterMode commands,      *)
(* language changes and reverts, as the stabilizer pass leaves them.     *)

MaxNestLen == 6

NestCommands ==
    { Text(<<"A">>), RateCommand(2, 100), CharacterModeCommand(TRUE),
      LangChangeCommand("fr"), LangChangeCommand(NoneLang) }

NestStreams ==
    {s \in UNION {[1..len -> NestCommands] : len \in 0..MaxNestLen} : Stabilizer(s) = s}

InitNest ==
    /\ open = FALSE
    /\ stream \in NestStreams
    /\ SpeakStart
    /\ StabIdle
    /\ HookIdle
    /\ NumIdle

NextNest ==
    \/ SpeakText(<<"A">>)
    \/ SpeakRate(2, 100)
    \/ SpeakCharacterMode(TRUE)
    \/ \E lang \in {"fr", NoneLang} : SpeakLangChange(lang)
    \/ SpeakEnd

SpecNest == InitNest /\ [][NextNest]_vars

RECURSIVE OpenAfter(_, _)
(* The elements left open after the markup payload, innermost last, given *)
(* the elements open before it; <<"?">> when an end tag does not close    *)
(* the innermost open element.                                            *)
OpenAfter(payload, stack) ==
    IF payload = <<>> THEN stack
    ELSE LET x == Head(payload)
         IN  IF x.k = "open" THEN OpenAfter(Tail(payload), Append(stack, x.tag))
             ELSE IF x.k = "close"
             THEN IF stack # <<>> /\ stack[Len(stack)] = x.tag
                  THEN OpenAfter(Tail(payload), SubSeq(stack, 1, Len(stack) - 1))
                  ELSE <<"?">>
             ELSE OpenAfter(Tail(payload), stack)

(* C26: every payload handed to a markup voice is well nested, each end  *)
(* tag closing the innermost open element and no element left open, and  *)
(* the list of open tags is empty when the payload is handed over.       *)
C26_MarkupWellNested ==
    [][ \A k \in 1..Len(NewCalls) :
          (NewCalls[k].op = "speak" /\ engine[NewCalls[k].voice] = "SAPI5")
            => /\ OpenAfter(NewCalls[k].payload, <<>>) = <<>>
               /\ openedTags' = <<>> ]_vars

(* C26 witness: a markup voice received a payload with three elements    *)
(* nested around a text, after a change to the voice, a revert and a     *)
(* second change.                                                        *)
C26_Witness ==
    /\ pc = "done"
    /\ Len(stream) = MaxNestLen
    /\ \E i, j \in 1..Len(stream) :
          i < j /\ stream[i] = LangChangeCommand(NoneLang)
                /\ stream[j] = LangChangeCommand("fr")
    /\ \E c \in 1..Len(calls) :
          /\ calls[c].op = "speak"
          /\ engine[calls[c].voice] = "SAPI5"
          /\ Len(SelectSeq(calls[c].payload, LAMBDA x : x.k = "close")) >= 2
          /\ Len(TextPieces(calls[c].payload)) >= 1

----------------------------------------------------------------------------
(* C27: the stabilizer pass outputs a permutation of its input; the      *)
(* instructions other than LanguageChange keep their relative order, the *)
(* LanguageChange markers keep theirs, and a LanguageChange only moves   *)
(* to an earlier position and never ahead of a Text that preceded it.    *)
C27_StabilizerPermutes ==
    passes >= 1 =>
        /\ Len(stabOut) = Len(stabPrev)
        /\ \A i \in 1..Len(stabPrev) :
              Cardinality({p \in 1..Len(stabOut) : stabOut[p] = stabPrev[i]}) = 1
        /\ SelectSeq(stabOut, LAMBDA c : ~IsLangChange(c))
              = SelectSeq(stabPrev, LAMBDA c : ~IsLangChange(c))
        /\ SelectSeq(stabOut, IsLangChange) = SelectSeq(stabPrev, IsLangChange)
        /\ \A j \in 1..Len(stabPrev) :
              IsLangChange(stabPrev[j]) =>
                  /\ PosOf(stabOut, stabPrev[j].id) <= j
                  /\ \A t \in 1..(j - 1) :
                        stabPrev[t].kind = "Text"
                          => PosOf(stabOut, stabPrev[t].id) < PosOf(stabOut, stabPrev[j].id)

(* C27 witness: one pass moved a LanguageChange ahead of two markers     *)
(* that follow a Text, in a sequence with a second LanguageChange.       *)
C27_Witness ==
    /\ passes = 1
    /\ \E j \in 4..Len(stabIn) :
          /\ IsLangChange(stabIn[j])
          /\ IsMarker(stabIn[j - 1])
          /\ IsMarker(stabIn[j - 2])
          /\ stabIn[j - 3].kind = "Text"
          /\ PosOf(stabOut, stabIn[j].id) = j - 2
    /\ Len(SelectSeq(stabIn, IsLangChange)) >= 2

----------------------------------------------------------------------------
IsStartNumber(command) == command = WVLangChangeCommand("StartNumber")

IsEndNumber(command) == command = WVLangChangeCommand("EndNumber")

IsNumberMarker(command) == IsStartNumber(command) \/ IsEndNumber(command)

(* C28: in the result of coercionNumberLangChange the number markers     *)
(* alternate, start then end, each start marker directly followed by one *)
(* Text and its end marker; the other non-text instructions are those of *)
(* the input, in order; the second pass gives every marker a language,   *)
(* changes nothing else, and leaves no 'StartNumber' or 'EndNumber'.     *)
C28_NumberMarkersBalanced ==
    [][ (numPc = "rewrite" /\ numPc' = "done")
          => LET markers == SelectSeq(result, IsNumberMarker)
             IN  /\ Len(markers) % 2 = 0
                 /\ \A i \in 1..Len(markers) :
                       IF i % 2 = 1 THEN IsStartNumber(markers[i])
                       ELSE IsEndNumber(markers[i])
                 /\ \A p \in 1..Len(result) :
                       /\ IsStartNumber(result[p])
                            => /\ p + 2 <= Len(result)
                               /\ result[p + 1].kind = "Text"
                               /\ IsEndNumber(result[p + 2])
                       /\ IsEndNumber(result[p])
                            => p >= 3 /\ IsStartNumber(result[p - 2])
                 /\ SelectSeq(result, LAMBDA c : c.kind # "Text" /\ ~IsNumberMarker(c))
                       = SelectSeq(numIn, LAMBDA c : c.kind # "Text")
                 /\ Len(result') = Len(result)
                 /\ \A p \in 1..Len(result) :
                       IF IsNumberMarker(result[p])
                       THEN /\ result'[p].kind = "WVLangChange"
                            /\ result'[p].lang \notin {"StartNumber", "EndNumber"}
                       ELSE result'[p] = result[p] ]_vars

(* C28 witness: the call returned for two strings with a number each and *)
(* a WVLangChangeCommand between them, four markers in the result.       *)
C28_Witness ==
    /\ numPc = "done"
    /\ numIn = << Text(<<"a", "1">>), WVLangChangeCommand("de"),
                  Text(<<"1", "2", ".", "5">>) >>
    /\ Len(result) = 11
    /\ result[2] = WVLangChangeCommand(numCfg.numberLanguage)
    /\ result[8] = WVLangChangeCommand(numCfg.numberLanguage)
    /\ result[6] = WVLangChangeCommand("de")
    /\ result[10] = WVLangChangeCommand("de")

----------------------------------------------------------------------------
(* The keyboard hook (hook.py): hook_callback runs on the hook thread    *)
(* (lines 18-21, 29-37), one call per key event; voiceManager.taskManager *)
(* and its attribute block belong to other threads, which may change     *)
(* them between any two reads hook_callback makes of them.               *)

(* vk_code values: three ordinary keys and a shift key. *)
Keys == {"A", "B", "C", "SHIFT"}

(* Lines 44-50: VK_SHIFT, VK_LSHIFT, VK_RSHIFT, VK_VOLUME_DOWN, VK_VOLUME_UP. *)
Excluded == {"SHIFT"}

Max(a, b) == IF a >= b THEN a ELSE b

(* Lines 63-67 with the key set p that lines 57-62 left. *)
AfterKeys(p) ==
    LET m == Max(pressed_max_count, Cardinality(p))
    IN  [pressed |-> p,
         pressed_max_count |-> IF p = {} THEN 0 ELSE m,
         reset_flag_set |-> p = {} /\ m >= 1 /\ m < 3]

(* Lines 57-68: the key of the event is added (a counted press) or      *)
(* removed (a release, lines 58-62), the counters are brought up to     *)
(* date and the call returns False; flag is reset_flag as lines 51-53   *)
(* left it.                                                             *)
Finish(flag) ==
    LET p == IF event.pressed /\ event.vk_code \notin Excluded
             THEN pressed \cup {event.vk_code}
             ELSE IF ~event.pressed THEN pressed \ {event.vk_code}
             ELSE pressed
        a == AfterKeys(p)
    IN  /\ pressed' = a.pressed
        /\ pressed_max_count' = a.pressed_max_count
        /\ reset_flag' = (flag \/ a.reset_flag_set)
        /\ tmCalls' = IF a.reset_flag_set THEN <<>> ELSE tmCalls
        /\ returned' = "False"
        /\ hookPc' = "idle"

(* The call ends with an AttributeError: None has no such attribute. *)
Raise ==
    /\ returned' = "AttributeError"
    /\ hookPc' = "idle"
    /\ UNCHANGED <<pressed, pressed_max_count, tmCalls>>

(* A key goes down (or repeats) or a held key goes up; hook_callback is *)
(* called and line 40 reads voiceManager.taskManager.                   *)
hook_callback(vk_code, isPressed) ==
    /\ hookPc = "idle"
    /\ isPressed \/ vk_code \in down
    /\ down' = IF isPressed THEN down \cup {vk_code} ELSE down \ {vk_code}
    /\ event' = [vk_code |-> vk_code, pressed |-> isPressed]
    /\ IF ~taskManager
       THEN returned' = "False" /\ hookPc' = "idle"
       ELSE returned' = "none" /\ hookPc' = "line42"
    /\ UNCHANGED <<pressed, pressed_max_count, reset_flag, taskManager, block, tmCalls,
                   muxVars, stabVars, numVars>>

(* Line 42 reads voiceManager.taskManager.block; with block set lines   *)
(* 44-53 follow, and lines 57-68 unless reset_flag was set.             *)
Line42 ==
    /\ hookPc = "line42"
    /\ IF ~taskManager THEN Raise /\ UNCHANGED reset_flag
       ELSE IF ~block
       THEN /\ returned' = "False"
            /\ hookPc' = "idle"
            /\ UNCHANGED <<pressed, pressed_max_count, reset_flag, tmCalls>>
       ELSE IF event.pressed /\ event.vk_code \notin Excluded /\ reset_flag
       THEN /\ reset_flag' = FALSE
            /\ hookPc' = "line54"
            /\ UNCHANGED <<pressed, pressed_max_count, returned, tmCalls>>
       ELSE Finish(reset_flag)
    /\ UNCHANGED <<taskManager, block, event, down, muxVars, stabVars, numVars>>

(* Line 54 reads voiceManager.taskManager again. *)
Line54 ==
    /\ hookPc = "line54"
    /\ IF taskManager
       THEN /\ hookPc' = "line55"
            /\ UNCHANGED <<pressed, pressed_max_count, reset_flag, returned, tmCalls>>
       ELSE Finish(reset_flag)
    /\ UNCHANGED <<taskManager, block, event, down, muxVars, stabVars, numVars>>

(* Line 55: voiceManager.taskManager.reset(). *)
Line55 ==
    /\ hookPc = "line55"
    /\ IF taskManager
       THEN /\ tmCalls' = Append(tmCalls, "reset")
            /\ hookPc' = "line56"
            /\ UNCHANGED <<pressed, pressed_max_count, returned>>
       ELSE Raise
    /\ UNCHANGED <<reset_flag, taskManager, block, event, down, muxVars, stabVars, numVars>>

(* Line 56: voiceManager.taskManager.cancel(), then lines 57-68. *)
Line56 ==
    /\ hookPc = "line56"
    /\ IF taskManager
       THEN LET p == pressed \cup {event.vk_code}
                a == AfterKeys(p)
            IN  /\ pressed' = a.pressed
                /\ pressed_max_count' = a.pressed_max_count
                /\ reset_flag' = reset_flag
                /\ tmCalls' = Append(tmCalls, "cancel")
                /\ returned' = "False"
                /\ hookPc' = "idle"
       ELSE Raise /\ UNCHANGED reset_flag
    /\ UNCHANGED <<taskManager, block, event, down, muxVars, stabVars, numVars>>

(* Another thread assigns voiceManager.taskManager: a new task manager, *)
(* or None.                                                             *)
SetTaskManager(exists) ==
    /\ taskManager # exists
    /\ taskManager' = exists
    /\ block' = FALSE
    /\ UNCHANGED <<pressed, pressed_max_count, reset_flag, hookPc, event, returned,
                   down, tmCalls, muxVars, stabVars, numVars>>

(* Another thread assigns taskManager.block. *)
SetBlock(b) ==
    /\ taskManager
    /\ block # b
    /\ block' = b
    /\ UNCHANGED <<pressed, pressed_max_count, reset_flag, taskManager, hookPc, event,
                   returned, down, tmCalls, muxVars, stabVars, numVars>>

InitHook ==
    /\ HookIdle
    /\ MuxIdle
    /\ StabIdle
    /\ NumIdle

NextHook ==
    \/ \E k \in Keys, isPressed \in BOOLEAN : hook_callback(k, isPressed)
    \/ Line42
    \/ Line54
    \/ Line55
    \/ Line56
    \/ \E exists \in BOOLEAN : SetTaskManager(exists)
    \/ \E b \in BOOLEAN : SetBlock(b)

SpecHook == InitHook /\ [][NextHook]_vars

(* C29: reset() and cancel() are called only during the press of a key   *)
(* outside the excluded list, on an existing task manager whose block is *)
(* set, with reset_flag already cleared; reset_flag becomes set only     *)
(* when the tracked key set becomes empty with a maximum of one or two   *)
(* keys tracked at once; at most one cancel follows one setting of the   *)
(* flag; and every call of hook_callback returns False.                  *)
C29_CancelOnlyAfterRelease ==
    [][ /\ (tmCalls' # tmCalls /\ tmCalls' # <<>>)
             => /\ event.pressed
                /\ event.vk_code \notin Excluded
                /\ taskManager
                /\ block
                /\ ~reset_flag'
        /\ (~reset_flag /\ reset_flag')
             => /\ pressed # {}
                /\ pressed' = {}
                /\ pressed_max_count \in {1, 2}
        /\ Count(tmCalls', "cancel") <= 1
        /\ returned' \in {"none", "False"} ]_vars

(* C30: after a return of hook_callback the set pressed holds exactly    *)
(* the keys outside the excluded list that are held down, and            *)
(* pressed_max_count is 0 when pressed is empty.                         *)
C30_PressedTracksHeldKeys ==
    (hookPc = "idle" /\ returned = "False")
      => /\ pressed = down \ Excluded
         /\ pressed = {} => pressed_max_count = 0
====
